---------------------------- MODULE Spec2Model ----------------------------
(***************************************************************************)
(* Admin trade table (AdminTradesPage), its detail enrichment fan-out, the *)
(* filter/sort view-model and the trade-detail modal (TradeDetailModal);   *)
(* the login page with its password-reset wizard (LoginPage) and the       *)
(* registration page (RegisterPage).                                       *)
(*                                                                         *)
(* Text is modelled as a sequence of one-character strings so that         *)
(* String.prototype.includes and Number.prototype.toString can be computed *)
(* rather than assumed.  The Korean literals of the source are written in  *)
(* ASCII (the module language has no non-ASCII strings); each definition   *)
(* names the literal it stands for.                                        *)
(***************************************************************************)
EXTENDS Integers, Sequences, FiniteSets, TLC

-----------------------------------------------------------------------------
(* Text                                                                    *)

\* The characters used by the model, in UTF-16 code-unit order
\* (digits < upper case < lower case), which is the order of JS `<` / `>`.
Alphabet == <<"0", "1", "2", "3", "4", "5", "6", "7", "8", "9",
              "A", "B", "C", "D", "E", "F", "G", "H", "I", "J", "K", "L", "M",
              "N", "O", "P", "Q", "R", "S", "T", "U", "V", "W", "X", "Y", "Z",
              "a", "b", "c", "d", "e", "f", "g", "h", "i", "j", "k", "l", "m",
              "n", "o", "p", "q", "r", "s", "t", "u", "v", "w", "x", "y", "z">>

CharCode(c) == CHOOSE i \in 1..Len(Alphabet) : Alphabet[i] = c

\* JS value `undefined` (an absent optional field); not a text.
Undefined == <<"undefined">>

\* JS truthiness of an optional string: undefined, null and "" are falsy.
Truthy(s) == s # Undefined /\ s # <<"null">> /\ s # <<>>

\* s.includes(t)
Includes(s, t) ==
  \E i \in 1..(Len(s) + 1) :
     /\ i + Len(t) - 1 <= Len(s)
     /\ SubSeq(s, i, i + Len(t) - 1) = t

\* n.toString() for a non-negative integer
RECURSIVE toString(_)
toString(n) ==
  IF n < 10 THEN <<Alphabet[n + 1]>>
  ELSE toString(n \div 10) \o <<Alphabet[(n % 10) + 1]>>

\* a < b on JS strings: lexicographic by code unit, a proper prefix is smaller
RECURSIVE StrLess(_, _)
StrLess(a, b) ==
  IF b = <<>> THEN FALSE
  ELSE IF a = <<>> THEN TRUE
  ELSE IF a[1] # b[1] THEN CharCode(a[1]) < CharCode(b[1])
  ELSE StrLess(Tail(a), Tail(b))

-----------------------------------------------------------------------------
(* Status and category labels                                              *)

\* '거래 요청', '거래 수락', '거래 취소', '거래 완료'
StatusLabelRequest == "georae yocheong"
StatusLabelAccept == "georae surak"
StatusLabelCanceled == "georae chwiso"
StatusLabelCompleted == "georae wallyo"

getStatusLabel(status) ==
  CASE status = "REQUEST" -> StatusLabelRequest
    [] status = "ACCEPT" -> StatusLabelAccept
    [] status = "CANCELED" -> StatusLabelCanceled
    [] status = "COMPLETED" -> StatusLabelCompleted
    [] OTHER -> status

\* Wire codes of the post category
CodeProduct == <<"P", "R", "O", "D", "U", "C", "T">>
CodeMethod == <<"M", "E", "T", "H", "O", "D">>
CodeUsage == <<"U", "S", "A", "G", "E">>
CodeDesign == <<"D", "E", "S", "I", "G", "N">>
CodeTrademark == <<"T", "R", "A", "D", "E", "M", "A", "R", "K">>
CodeCopyright == <<"C", "O", "P", "Y", "R", "I", "G", "H", "T">>

\* "물건발명", "방법발명", "용도발명", "디자인권", "상표권", "저작권"
LabelProduct == <<"m", "g", "b", "m">>
LabelMethod == <<"b", "b", "b", "m">>
LabelUsage == <<"y", "d", "b", "m">>
LabelDesign == <<"d", "j", "g">>
LabelTrademark == <<"s", "p", "g">>
LabelCopyright == <<"j", "j", "g">>
\* "기타"
LabelOther == <<"g", "t">>
\* '제목 없음', '카테고리 없음'
NoTitle == <<"j", "m", "e", "s">>
NoCategory == <<"k", "t", "e", "s">>

koreanCategories ==
  {LabelProduct, LabelMethod, LabelUsage, LabelDesign, LabelTrademark,
   LabelCopyright}

\* getCategoryLabel that knows the wire codes only
getCategoryLabelCodesOnly(category) ==
  CASE category = CodeProduct -> LabelProduct
    [] category = CodeMethod -> LabelMethod
    [] category = CodeUsage -> LabelUsage
    [] category = CodeDesign -> LabelDesign
    [] category = CodeTrademark -> LabelTrademark
    [] category = CodeCopyright -> LabelCopyright
    [] OTHER -> LabelOther

getCategoryLabel(category) ==
  IF category \in koreanCategories THEN category
  ELSE CASE category = CodeProduct -> LabelProduct
         [] category = CodeMethod -> LabelMethod
         [] category = CodeUsage -> LabelUsage
         [] category = CodeDesign -> LabelDesign
         [] category = CodeTrademark -> LabelTrademark
         [] category = CodeCopyright -> LabelCopyright
         [] OTHER -> IF Truthy(category) THEN category ELSE LabelOther

-----------------------------------------------------------------------------
(* Backend data                                                            *)

\* createdAt is an ISO-8601 text on the wire; the model keeps its day and hour
\* fields, and getTime is what `new Date(createdAt).getTime()` computes.
getTime(createdAt) == createdAt[1] * 24 + createdAt[2]

\* interface Trade (the list endpoint's record)
MkTrade(id, price, status, createdAt) ==
  [id |-> id, postId |-> 10 + id, sellerId |-> 20 + id, buyerId |-> 30 + id,
   price |-> price, status |-> status, createdAt |-> createdAt]

T1 == MkTrade(1, 300, "REQUEST", <<1, 9>>)
T2 == MkTrade(2, 100, "ACCEPT", <<2, 0>>)
T3 == MkTrade(3, 200, "ACCEPT", <<1, 3>>)
T4 == MkTrade(4, 100, "COMPLETED", <<3, 0>>)
\* a status the frontend does not know
T5 == MkTrade(12, 21, "HOLD", <<1, 3>>)

\* What adminAPI.getAllTrades can answer: response.data.content
BackendLists == {<<>>, <<T1, T2>>}

\* The post metadata adminAPI.getTradeDetail(id) can carry in response.data
DetailPosts(id) ==
  CASE id = 1 -> {[postTitle |-> <<"a", "B">>, postCategory |-> CodeProduct]}
    [] id = 2 -> {[postTitle |-> <<"A", "b", "1">>, postCategory |-> <<>>]}
    [] id = 3 -> {[postTitle |-> <<"a", "B">>, postCategory |-> LabelDesign],
                  [postTitle |-> Undefined, postCategory |-> Undefined],
                  [postTitle |-> <<>>, postCategory |-> <<"E", "T", "C">>]}
    [] id = 4 -> {[postTitle |-> <<"b">>, postCategory |-> CodeCopyright]}
    [] OTHER -> {[postTitle |-> <<"2", "1">>, postCategory |-> CodeMethod]}

\* The text a failed response can carry in response.data.message
\* (absent, empty, or a backend text)
BackendMessages == {Undefined, <<>>, <<"n", "o", "t", "f", "o", "u", "n", "d">>}

\* A settled adminAPI.getTradeDetail(id): fulfilled with a payload envelope,
\* or rejected with an ApiError.
DetailResponses(id) ==
  {[ok |-> TRUE, tradeId |-> id, data |-> p] : p \in DetailPosts(id)}
  \cup {[ok |-> FALSE, tradeId |-> id, message |-> m] : m \in BackendMessages}

-----------------------------------------------------------------------------
(* State                                                                   *)

VARIABLES
  \* useAdminTable(fetchTrades): data, isLoading, error
  trades, listIsLoading, listError,
  \* fetchPostInfoForTrades calls whose Promise.all has not resolved yet
  fanouts,
  \* AdminTradesPage useState
  tradesWithPostInfo, searchTerm, statusFilter, sortBy, sortOrder,
  selectedTradeId, isModalOpen,
  \* what the last render of AdminTradesPage computed
  filteredTrades, sortedTrades,
  \* TradeDetailModal useState (of the mounted instance)
  trade, isLoading, error,
  \* adminAPI.getTradeDetail calls of TradeDetailModal that have not settled
  detailReqs,
  \* the last event the modal component took: a click on one of its elements
  \* or on a table row, or the settling of one of its getTradeDetail calls
  lastEvent

VARIABLES
  \* the route the router shows (router.push sets it)
  route,
  \* LoginPage useState: isLoading, error; its login request in flight; the
  \* user stored by login() of the AuthContext
  loginIsLoading, loginError, loginPending, session,
  \* LoginPage useState of the password-reset wizard
  showPasswordReset, passwordResetStep, passwordResetData,
  passwordResetLoading, passwordResetError, passwordResetSuccess,
  \* handleNextStep calls whose verifyMember or timer has not settled yet,
  \* and findAndUpdatePassword calls in flight
  verifyCalls, updateReqs,
  \* the name and email of the last verifyMember call that won its race
  \* fulfilled (history, not read by the page)
  verifiedIdentity,
  \* RegisterPage useState: formData, isLoading, error; its signup in flight
  regFormData, regIsLoading, regError, regPending,
  \* the last event a handler of LoginPage or RegisterPage took, and the
  \* handlers that let an exception out
  authEvent, escaped

VARIABLES
  \* arguments and results of the label functions
  categoryArg, categoryLabel, statusArg, statusLabel, modalStatusLabel,
  \* a value of the status filter and whether statusArg passes it
  filterArg, statusMatches

pageVars == <<trades, listIsLoading, listError, fanouts, tradesWithPostInfo>>
viewVars == <<searchTerm, statusFilter, sortBy, sortOrder>>
renderVars == <<filteredTrades, sortedTrades>>
selVars == <<selectedTradeId, isModalOpen>>
modalVars == <<trade, isLoading, error, detailReqs>>
adminVars == <<pageVars, viewVars, renderVars, selVars, modalVars, lastEvent>>

loginVars == <<loginIsLoading, loginError, loginPending, session>>
resetVars == <<showPasswordReset, passwordResetStep, passwordResetData,
               passwordResetLoading, passwordResetError, passwordResetSuccess,
               verifyCalls, updateReqs, verifiedIdentity>>
registerVars == <<regFormData, regIsLoading, regError, regPending>>
authVars == <<route, loginVars, resetVars, registerVars, authEvent, escaped>>

labelVars == <<categoryArg, categoryLabel, statusArg, statusLabel,
               modalStatusLabel, filterArg, statusMatches>>

\* What the admin trade page and its modal never touch
nonAdminVars == <<authVars, labelVars>>

vars == <<adminVars, authVars, labelVars>>

\* JS null, where a text is expected and where an object is expected
Null == <<"null">>
NullObj == [null |-> TRUE]

-----------------------------------------------------------------------------
(* Filter/sort view-model (AdminTradesPage render)                         *)

\* matchesSearch without the price field
matchesSearchNoPrice(t, term) ==
  \/ Includes(toString(t.id), term)
  \/ (Truthy(t.postTitle) /\ Includes(t.postTitle, term))
  \/ (Truthy(t.postCategory) /\ Includes(t.postCategory, term))

matchesSearch(t, term) ==
  \/ Includes(toString(t.id), term)
  \/ (Truthy(t.postTitle) /\ Includes(t.postTitle, term))
  \/ (Truthy(t.postCategory) /\ Includes(t.postCategory, term))
  \/ Includes(toString(t.price), term)

matchesStatus(t, filter) == filter = "ALL" \/ t.status = filter

Filter(list, term, filter) ==
  SelectSeq(list, LAMBDA t : matchesSearch(t, term) /\ matchesStatus(t, filter))

\* `x || ''` of an optional text
OrEmpty(x) == IF Truthy(x) THEN x ELSE <<>>

\* aValue > bValue for the values the switch on sortBy selects
SortGreater(a, b, by) ==
  CASE by = "createdAt" -> getTime(a.createdAt) > getTime(b.createdAt)
    [] by = "price" -> a.price > b.price
    [] by = "id" -> a.id > b.id
    [] by = "postTitle" -> StrLess(OrEmpty(b.postTitle), OrEmpty(a.postTitle))
    [] by = "postCategory" ->
         StrLess(OrEmpty(b.postCategory), OrEmpty(a.postCategory))

\* The comparator without the branch on sortOrder
compareFnAscOnly(a, b, by, order) ==
  IF SortGreater(a, b, by) THEN 1 ELSE -1

\* The comparator handed to Array.prototype.sort
compareFn(a, b, by, order) ==
  IF order = "asc"
  THEN (IF SortGreater(a, b, by) THEN 1 ELSE -1)
  ELSE (IF SortGreater(b, a, by) THEN 1 ELSE -1)

PermsOf(list) ==
  {[i \in 1..Len(list) |-> list[p[i]]] : p \in Permutations(1..Len(list))}

\* [...list].sort(compareFn): a permutation in which every element the
\* comparator puts first comes first.  The comparator answers -1 both ways for
\* equal keys, so the order among equal keys is the engine's choice.
SortOutcomes(list, by, order) ==
  {q \in PermsOf(list) :
     \A i \in 1..Len(q) : \A j \in (i + 1)..Len(q) :
        compareFn(q[i], q[j], by, order) < 0}

\* One render of AdminTradesPage from the state it is about to have
Render ==
  /\ filteredTrades' = Filter(tradesWithPostInfo', searchTerm', statusFilter')
  /\ sortedTrades' \in SortOutcomes(filteredTrades', sortBy', sortOrder')

-----------------------------------------------------------------------------
(* Bounds and inputs                                                       *)

\* fetchPostInfoForTrades calls in flight at once
MaxFanouts == 2
\* getTradeDetail calls of the modal in flight at once
MaxDetailReqs == 2

\* What the user types into the search box
SearchTerms == {<<>>, <<"1">>, <<"B">>}
\* <option> values of the status <select>
StatusOptions == {"ALL", "REQUEST", "ACCEPT", "CANCELED", "COMPLETED"}
\* <th> elements with an onClick
SortColumns == {"postTitle", "postCategory", "price", "createdAt"}
\* The text a failed getAllTrades leaves in the hook's error
ListErrors == {<<"e", "r", "r">>}

-----------------------------------------------------------------------------
(* Detail enricher (AdminTradesPage)                                       *)

Pending == [state |-> "pending"]

\* The body of the async callback of trades.map, after its await settled
EnrichOne(t, resp) ==
  IF resp.ok
  THEN [postTitle |-> IF resp.data.postTitle # Undefined
                      THEN resp.data.postTitle ELSE NoTitle,
        postCategory |-> IF Truthy(resp.data.postCategory)
                         THEN getCategoryLabel(resp.data.postCategory)
                         ELSE NoCategory] @@ t
  ELSE [postTitle |-> NoTitle, postCategory |-> NoCategory] @@ t

\* fetchPostInfoForTrades(list) up to its await: trades.map has called every
\* callback, each of which has issued its getTradeDetail and is suspended.
fetchPostInfoForTrades(list) ==
  [trades |-> list, slots |-> [i \in 1..Len(list) |-> Pending]]

AllSettled(slots) == \A i \in 1..Len(slots) : slots[i].state # "pending"

Results(slots) == [i \in 1..Len(slots) |-> slots[i].value]

RemoveAt(seq, k) == SubSeq(seq, 1, k - 1) \o SubSeq(seq, k + 1, Len(seq))

\* useEffect(..., [trades]) for a new value of trades
TradesEffect(list) ==
  IF Len(list) > 0
  THEN /\ fanouts' = Append(fanouts, fetchPostInfoForTrades(list))
       /\ UNCHANGED <<tradesWithPostInfo, renderVars>>
  ELSE /\ tradesWithPostInfo' = <<>>
       /\ UNCHANGED fanouts
       /\ Render

\* adminAPI.getAllTrades() of useAdminTable settles with a list
FetchTradesOk(list) ==
  /\ listIsLoading
  /\ trades' = list
  /\ listIsLoading' = FALSE
  /\ UNCHANGED <<listError, viewVars, selVars, modalVars, lastEvent, nonAdminVars>>
  /\ TradesEffect(list)

\* adminAPI.getAllTrades() of useAdminTable rejects
FetchTradesFail(msg) ==
  /\ listIsLoading
  /\ listError' = msg
  /\ listIsLoading' = FALSE
  /\ UNCHANGED <<trades, fanouts, tradesWithPostInfo, viewVars, renderVars,
                 selVars, modalVars, lastEvent, nonAdminVars>>

\* refetch (the refresh button, disabled while the list is loading)
Refetch ==
  /\ ~listIsLoading
  /\ Len(fanouts) < MaxFanouts
  /\ listIsLoading' = TRUE
  /\ listError' = Null
  /\ UNCHANGED <<trades, fanouts, tradesWithPostInfo, viewVars, renderVars,
                 selVars, modalVars, lastEvent, nonAdminVars>>

\* EnrichSettle with a fail-fast join: the callback lets a rejection through,
\* Promise.all rejects at the first failure and the results are never set.
EnrichSettleFailFast(f, i, resp) ==
  /\ fanouts[f].slots[i].state = "pending"
  /\ LET slot == [state |-> "settled", ok |-> resp.ok,
                  data |-> IF resp.ok THEN resp.data ELSE NullObj,
                  value |-> EnrichOne(fanouts[f].trades[i], resp)]
         slots == [fanouts[f].slots EXCEPT ![i] = slot]
     IN IF ~resp.ok
        THEN /\ fanouts' = RemoveAt(fanouts, f)
             /\ UNCHANGED <<trades, listIsLoading, listError,
                            tradesWithPostInfo, viewVars, renderVars, selVars,
                            modalVars, lastEvent, nonAdminVars>>
        ELSE IF AllSettled(slots)
        THEN /\ tradesWithPostInfo' = Results(slots)
             /\ fanouts' = RemoveAt(fanouts, f)
             /\ UNCHANGED <<trades, listIsLoading, listError, viewVars,
                            selVars, modalVars, lastEvent, nonAdminVars>>
             /\ Render
        ELSE /\ fanouts' = [fanouts EXCEPT ![f].slots = slots]
             /\ UNCHANGED <<trades, listIsLoading, listError,
                            tradesWithPostInfo, viewVars, renderVars, selVars,
                            modalVars, lastEvent, nonAdminVars>>

\* One getTradeDetail of fan-out f settles; when it is the last one,
\* Promise.all resolves and setTradesWithPostInfo(results) runs.
EnrichSettle(f, i, resp) ==
  /\ fanouts[f].slots[i].state = "pending"
  /\ LET slot == [state |-> "settled", ok |-> resp.ok,
                  data |-> IF resp.ok THEN resp.data ELSE NullObj,
                  value |-> EnrichOne(fanouts[f].trades[i], resp)]
         slots == [fanouts[f].slots EXCEPT ![i] = slot]
     IN IF AllSettled(slots)
        THEN /\ tradesWithPostInfo' = Results(slots)
             /\ fanouts' = RemoveAt(fanouts, f)
             /\ UNCHANGED <<trades, listIsLoading, listError, viewVars,
                            selVars, modalVars, lastEvent, nonAdminVars>>
             /\ Render
        ELSE /\ fanouts' = [fanouts EXCEPT ![f].slots = slots]
             /\ UNCHANGED <<trades, listIsLoading, listError,
                            tradesWithPostInfo, viewVars, renderVars, selVars,
                            modalVars, lastEvent, nonAdminVars>>

-----------------------------------------------------------------------------
(* View state (AdminTradesPage)                                            *)

\* SetSearchTerm that filters the source collection in place
SetSearchTermInPlace(term) ==
  /\ searchTerm' = term
  /\ tradesWithPostInfo' = Filter(tradesWithPostInfo, term, statusFilter)
  /\ UNCHANGED <<trades, listIsLoading, listError, fanouts, statusFilter,
                 sortBy, sortOrder, selVars, modalVars, lastEvent, nonAdminVars>>
  /\ Render

\* onChange of the search <input>
SetSearchTerm(term) ==
  /\ searchTerm' = term
  /\ UNCHANGED <<pageVars, statusFilter, sortBy, sortOrder, selVars,
                 modalVars, lastEvent, nonAdminVars>>
  /\ Render

\* SetStatusFilter that asks the backend for the list again
SetStatusFilterRefetch(filter) ==
  /\ statusFilter' = filter
  /\ listIsLoading' = TRUE
  /\ UNCHANGED <<trades, listError, fanouts, tradesWithPostInfo, searchTerm,
                 sortBy, sortOrder, selVars, modalVars, lastEvent, nonAdminVars>>
  /\ Render

\* onChange of the status <select>
SetStatusFilter(filter) ==
  /\ statusFilter' = filter
  /\ UNCHANGED <<pageVars, searchTerm, sortBy, sortOrder, selVars, modalVars,
                 lastEvent, nonAdminVars>>
  /\ Render

TableShown == ~listIsLoading /\ Len(sortedTrades) > 0

\* onClick of a sortable <th>
SortClick(column) ==
  /\ TableShown
  /\ IF sortBy = column
     THEN /\ sortOrder' = IF sortOrder = "asc" THEN "desc" ELSE "asc"
          /\ UNCHANGED sortBy
     ELSE /\ sortBy' = column
          /\ sortOrder' = "desc"
  /\ UNCHANGED <<pageVars, searchTerm, statusFilter, selVars, modalVars,
                 lastEvent, nonAdminVars>>
  /\ Render

-----------------------------------------------------------------------------
(* Trade-detail modal (TradeDetailModal, mounted by AdminTradesPage only   *)
(* while selectedTradeId is truthy; 0 stands for null)                     *)

\* '거래 상세 정보를 불러오는데 실패했습니다.'
GenericDetailError == <<"f", "a", "i", "l", "e", "d">>

Mounted == selectedTradeId # 0

\* Rows of the rendered table
RowIds == {sortedTrades[i].id : i \in 1..Len(sortedTrades)}

\* fetchTradeDetail that does not raise the loading flag
fetchTradeDetailNoSpinner(tradeId) ==
  /\ UNCHANGED isLoading
  /\ error' = Null
  /\ detailReqs' = Append(detailReqs, [tradeId |-> tradeId, live |-> TRUE])

\* fetchTradeDetail() up to its await, for the mounted instance and the
\* tradeId its closure holds
fetchTradeDetail(tradeId) ==
  /\ isLoading' = TRUE
  /\ error' = Null
  /\ detailReqs' = Append(detailReqs, [tradeId |-> tradeId, live |-> TRUE])

\* Requests of an instance that is unmounted: their setters no longer act
Orphaned(reqs) == [k \in 1..Len(reqs) |-> [reqs[k] EXCEPT !.live = FALSE]]

\* onClick of a table row or of its detail button.  The page has no guard on
\* the modal being open: the overlay stops the pointer, not keyboard
\* activation of the buttons behind it.
handleTradeClick(tradeId) ==
  /\ TableShown
  /\ tradeId \in RowIds
  /\ selectedTradeId' = tradeId
  /\ isModalOpen' = TRUE
  /\ lastEvent' = [kind |-> "row"]
  /\ UNCHANGED nonAdminVars
  /\ IF ~Mounted
     THEN \* mount with the useState initial values, then the effect
          /\ Len(detailReqs) < MaxDetailReqs
          /\ trade' = NullObj
          /\ fetchTradeDetail(tradeId)
     ELSE IF selectedTradeId # tradeId
     THEN \* same instance, new tradeId prop: the effect runs again
          /\ Len(detailReqs) < MaxDetailReqs
          /\ UNCHANGED trade
          /\ fetchTradeDetail(tradeId)
     ELSE UNCHANGED modalVars
  /\ UNCHANGED <<pageVars, viewVars, renderVars>>

\* handleClose, then the page's handleModalClose: the instance is unmounted
handleClose(button) ==
  /\ Mounted /\ isModalOpen
  /\ lastEvent' = [kind |-> button]
  /\ UNCHANGED nonAdminVars
  /\ trade' = NullObj
  /\ error' = Null
  /\ isLoading' = FALSE
  /\ isModalOpen' = FALSE
  /\ selectedTradeId' = 0
  /\ detailReqs' = Orphaned(detailReqs)
  /\ UNCHANGED <<pageVars, viewVars, renderVars>>

\* A click on the overlay <div>, which carries no onClick
BackdropClick ==
  /\ Mounted /\ isModalOpen
  /\ lastEvent' = [kind |-> "backdrop"]
  /\ UNCHANGED nonAdminVars
  /\ UNCHANGED <<pageVars, viewVars, renderVars, selVars, modalVars>>

\* onClick of the retry button, rendered in the error branch only
RetryClick ==
  /\ Mounted /\ isModalOpen
  /\ ~isLoading /\ Truthy(error)
  /\ Len(detailReqs) < MaxDetailReqs
  /\ lastEvent' = [kind |-> "retry"]
  /\ UNCHANGED nonAdminVars
  /\ fetchTradeDetail(selectedTradeId)
  /\ UNCHANGED <<trade, pageVars, viewVars, renderVars, selVars>>

\* response.data of a fulfilled getTradeDetail
DetailData(resp) ==
  [id |-> resp.tradeId, postTitle |-> resp.data.postTitle,
   postCategory |-> resp.data.postCategory]

\* The fallback taken with ?? instead of ||: an empty message is kept
DetailErrorTextNullish(resp) ==
  IF resp.message # Undefined THEN resp.message ELSE GenericDetailError

\* apiError.response?.data?.message || '...'
DetailErrorText(resp) ==
  IF Truthy(resp.message) THEN resp.message ELSE GenericDetailError

\* fetchTradeDetail() whose catch block calls fetchTradeDetail() again
DetailSettleAutoRetry(k, resp) ==
  /\ LET req == detailReqs[k]
     IN /\ resp.tradeId = req.tradeId
        /\ IF req.live /\ ~resp.ok
           THEN /\ error' = DetailErrorText(resp)
                /\ isLoading' = TRUE
                /\ detailReqs' = Append(RemoveAt(detailReqs, k), req)
                /\ UNCHANGED trade
           ELSE /\ IF req.live
                   THEN trade' = DetailData(resp) /\ isLoading' = FALSE
                   ELSE UNCHANGED <<trade, isLoading>>
                /\ detailReqs' = RemoveAt(detailReqs, k)
                /\ UNCHANGED error
  /\ lastEvent' = [kind |-> "settle", live |-> detailReqs[k].live, resp |-> resp]
  /\ UNCHANGED nonAdminVars
  /\ UNCHANGED <<pageVars, viewVars, renderVars, selVars>>

\* fetchTradeDetail() after its await: try / catch / finally
DetailSettle(k, resp) ==
  /\ LET req == detailReqs[k]
     IN /\ resp.tradeId = req.tradeId
        /\ IF req.live
           THEN /\ IF resp.ok
                   THEN trade' = DetailData(resp) /\ UNCHANGED error
                   ELSE error' = DetailErrorText(resp) /\ UNCHANGED trade
                /\ isLoading' = FALSE
           ELSE UNCHANGED <<trade, isLoading, error>>
  /\ detailReqs' = RemoveAt(detailReqs, k)
  /\ lastEvent' = [kind |-> "settle", live |-> detailReqs[k].live, resp |-> resp]
  /\ UNCHANGED nonAdminVars
  /\ UNCHANGED <<pageVars, viewVars, renderVars, selVars>>

-----------------------------------------------------------------------------
(* Failures of a request (interface ApiError of LoginPage / RegisterPage)  *)

\* Error.message of the rejection of the 5 s timer in handleNextStep:
\* '요청 시간이 초과되었습니다.'
TimeoutText == <<"t", "i", "m", "e", "o", "u", "t">>
\* Error.message the HTTP client gives a failed request
ClientErrorText == <<"r", "e", "q", "f", "a", "i", "l">>
\* Error.message of a TypeError thrown while a response is read
TypeErrorText == <<"t", "y", "p", "e">>

\* resultCode of a 403 answer: withdrawn account, suspended account
ResultCodeWithdrawn == <<"4", "0", "3", "-", "1">>
ResultCodeSuspended == <<"4", "0", "3", "-", "2">>

\* An ApiError: message is Error.message; response says whether a response
\* was received, with its status, its data.message and its data.resultCode;
\* request is the truthiness of the request field.
MkApiError(message, response, status, dataMessage, resultCode, request) ==
  [ok |-> FALSE, message |-> message, response |-> response,
   status |-> status, dataMessage |-> dataMessage, resultCode |-> resultCode,
   request |-> request]

\* HTTP statuses of a failure answer that the handlers tell apart, and one
\* (409) that none of them names
FailureStatuses == {400, 401, 404, 409, 500}

\* Rejections of a request: answered with a failure status, or not answered
ApiFailures ==
  {MkApiError(ClientErrorText, TRUE, st, m, Undefined, TRUE) :
     st \in FailureStatuses, m \in BackendMessages}
  \cup {MkApiError(ClientErrorText, TRUE, 403, m, rc, TRUE) :
          m \in BackendMessages,
          rc \in {Undefined, ResultCodeWithdrawn, ResultCodeSuspended}}
  \cup {MkApiError(ClientErrorText, FALSE, 0, Undefined, Undefined, rq) :
          rq \in BOOLEAN}

\* The rejection of the timer promise: new Error(TimeoutText)
TimeoutError == MkApiError(TimeoutText, FALSE, 0, Undefined, Undefined, FALSE)

\* A TypeError raised inside a try block
ThrownTypeError ==
  MkApiError(TypeErrorText, FALSE, 0, Undefined, Undefined, FALSE)

\* apiError.response?.data?.message
ResponseMessage(err) == IF err.response THEN err.dataMessage ELSE Undefined

-----------------------------------------------------------------------------
(* LoginPage: login form                                                   *)

\* "로그인 응답 데이터가 올바르지 않습니다."
LoginBadResponseError == <<"l", "b", "a", "d">>
\* "이메일 혹은 비밀번호를 잘못 입력하셨거나 등록되지 않은 계정입니다."
LoginCredentialError == <<"l", "c", "r", "e", "d">>
\* "탈퇴한 계정입니다. 새로운 계정으로 가입해주세요."
LoginWithdrawnError == <<"l", "w", "i", "t", "h">>
\* "관리자에 의해 정지된 계정입니다. 관리자에게 문의 바랍니다."
LoginSuspendedError == <<"l", "s", "u", "s", "p">>
\* "접근 권한이 없습니다."
LoginForbiddenError == <<"l", "f", "o", "r", "b">>
\* "서버 오류가 발생했습니다. 잠시 후 다시 시도해주세요."
LoginServerError == <<"l", "s", "e", "r", "v">>
\* "서버 연결에 실패했습니다. 네트워크 연결을 확인해주세요."
LoginNetworkError == <<"l", "n", "e", "t">>
\* "로그인 중 오류가 발생했습니다. 다시 시도해주세요."
LoginGenericError == <<"l", "g", "e", "n">>

\* The 403 branch without the resultCode discrimination
LoginForbiddenTextAnyCode(err) == LoginForbiddenError

\* The 403 branch of the catch block of handleSubmit
LoginForbiddenText(err) ==
  IF err.resultCode = ResultCodeWithdrawn THEN LoginWithdrawnError
  ELSE IF err.resultCode = ResultCodeSuspended THEN LoginSuspendedError
  ELSE LoginForbiddenError

\* The catch block of handleSubmit with the status branches before the
\* message branch
LoginErrorTextStatusFirst(err) ==
  IF err.response /\ err.status \in {400, 401} THEN LoginCredentialError
  ELSE IF err.response /\ err.status = 403
  THEN LoginForbiddenText(err)
  ELSE IF err.response /\ err.status = 500 THEN LoginServerError
  ELSE IF Truthy(ResponseMessage(err)) THEN ResponseMessage(err)
  ELSE IF err.request THEN LoginNetworkError
  ELSE LoginGenericError

\* The catch block of handleSubmit: the text given to setError
LoginErrorText(err) ==
  IF Truthy(ResponseMessage(err)) THEN ResponseMessage(err)
  ELSE IF err.response /\ err.status = 401 THEN LoginCredentialError
  ELSE IF err.response /\ err.status = 400 THEN LoginCredentialError
  ELSE IF err.response /\ err.status = 403
  THEN LoginForbiddenText(err)
  ELSE IF err.response /\ err.status = 500 THEN LoginServerError
  ELSE IF err.request THEN LoginNetworkError
  ELSE LoginGenericError

\* memberInfo.role when the answer has none
NoRole == ""

\* Fulfilled answers of POST /api/auth/login.  body: response.data is null,
\* has no data envelope, or has one; memberInfo: absent, without id, or
\* complete; role: memberInfo.role, possibly absent.
LoginAnswers ==
  {[ok |-> TRUE, body |-> "null", memberInfo |-> "absent", role |-> NoRole],
   [ok |-> TRUE, body |-> "noData", memberInfo |-> "absent", role |-> NoRole],
   [ok |-> TRUE, body |-> "data", memberInfo |-> "absent", role |-> NoRole],
   [ok |-> TRUE, body |-> "data", memberInfo |-> "noId", role |-> "USER"]}
  \cup {[ok |-> TRUE, body |-> "data", memberInfo |-> "full", role |-> r] :
          r \in {NoRole, "USER", "ADMIN"}}

\* memberInfo?.role || 'USER'
RoleOrUser(role) == IF role = NoRole THEN "USER" ELSE role

\* The route handleSubmit pushes for a role
RouteForRole(role) == IF role = "ADMIN" THEN "/admin/members" ELSE "/"

\* onSubmit of the login form (handleSubmit up to its await); the submit
\* button is disabled while isLoading
LoginSubmit ==
  /\ route = "/login"
  /\ ~showPasswordReset
  /\ ~loginIsLoading
  /\ loginError' = <<>>
  /\ loginIsLoading' = TRUE
  /\ loginPending' = TRUE
  /\ authEvent' = [site |-> "login", kind |-> "submit"]
  /\ UNCHANGED <<route, session, resetVars, registerVars, escaped, adminVars,
                 labelVars>>

\* handleSubmit after its await, for a fulfilled answer: the try block.
\* Reading response.data.data of a null body and memberInfo.id.toString() of
\* a memberInfo without id throw a TypeError, which the catch block takes.
LoginFulfilled(resp) ==
  IF resp.body = "null" \/ (resp.body = "data" /\ resp.memberInfo = "noId")
  THEN /\ loginError' = LoginErrorText(ThrownTypeError)
       /\ UNCHANGED <<session, route>>
  ELSE IF resp.body = "noData"
  THEN /\ loginError' = LoginBadResponseError
       /\ UNCHANGED <<session, route>>
  ELSE /\ session' = IF resp.memberInfo = "full"
                     THEN [role |-> RoleOrUser(resp.role)]
                     ELSE session
       /\ route' = RouteForRole(RoleOrUser(resp.role))
       /\ UNCHANGED loginError

\* handleSubmit whose catch block is missing: the rejection leaves the handler
LoginSettleNoCatch(resp) ==
  /\ route = "/login"
  /\ loginPending
  /\ loginPending' = FALSE
  /\ loginIsLoading' = FALSE
  /\ IF resp.ok
     THEN LoginFulfilled(resp) /\ UNCHANGED escaped
     ELSE /\ escaped' = escaped \cup {"login"}
          /\ UNCHANGED <<loginError, session, route>>
  /\ authEvent' = [site |-> "login", kind |-> "settle", resp |-> resp]
  /\ UNCHANGED <<resetVars, registerVars, adminVars, labelVars>>

\* handleSubmit after its await: try / catch / finally
LoginSettle(resp) ==
  /\ route = "/login"
  /\ loginPending
  /\ loginPending' = FALSE
  /\ loginIsLoading' = FALSE
  /\ IF resp.ok
     THEN LoginFulfilled(resp)
     ELSE /\ loginError' = LoginErrorText(resp)
          /\ UNCHANGED <<session, route>>
  /\ authEvent' = [site |-> "login", kind |-> "settle", resp |-> resp]
  /\ UNCHANGED <<resetVars, registerVars, escaped, adminVars, labelVars>>

-----------------------------------------------------------------------------
(* LoginPage: password-reset wizard                                        *)

\* "이름과 이메일을 모두 입력해주세요."
ResetBlankError == <<"r", "b", "l", "a", "n", "k">>
\* "서버 응답이 지연되고 있습니다. 잠시 후 다시 시도해주세요."
ResetDelayedError == <<"r", "d", "e", "l", "a", "y">>
\* "입력하신 이름과 이메일로 등록된 계정을 찾을 수 없습니다. 회원가입을 먼저
\* 진행해주세요."
VerifyNotFoundError == <<"v", "4", "0", "4">>
\* "해당 정보와 일치하는 회원이 없습니다."
NoMemberError == <<"n", "o", "m", "e", "m">>
\* "새 비밀번호와 확인 비밀번호가 일치하지 않습니다."
ResetMismatchError == <<"r", "m", "i", "s">>
\* "입력 정보를 확인해주세요."
ResetCheckInputError == <<"r", "c", "h", "k">>
\* "비밀번호 변경 중 오류가 발생했습니다. 다시 시도해주세요."
ResetGenericError == <<"r", "g", "e", "n">>
\* "비밀번호가 성공적으로 변경되었습니다."
ResetSuccessText == <<"r", "o", "k">>

\* String.prototype.trim
RECURSIVE trim(_)
trim(s) ==
  IF s = <<>> THEN s
  ELSE IF Head(s) = " " THEN trim(Tail(s))
  ELSE IF s[Len(s)] = " " THEN trim(SubSeq(s, 1, Len(s) - 1))
  ELSE s

\* The useState initial value of passwordResetData
EmptyResetData ==
  [name |-> <<>>, email |-> <<>>, newPassword |-> <<>>,
   confirmPassword |-> <<>>]

\* What the user types into the wizard's fields
ResetInputs ==
  [name |-> {<<" ">>, <<"k", " ">>},
   email |-> {<<"e">>},
   newPassword |-> {<<"p">>},
   confirmPassword |-> {<<"p">>, <<"q">>}]

\* handleNextStep calls with a promise still unsettled, at once
MaxVerifyCalls == 2

\* The catch block of handleNextStep: the text given to setPasswordResetError
VerifyErrorText(err) ==
  IF err.message = TimeoutText THEN ResetDelayedError
  ELSE IF Truthy(ResponseMessage(err)) THEN ResponseMessage(err)
  ELSE IF err.response /\ err.status = 404 THEN VerifyNotFoundError
  ELSE NoMemberError

\* The catch block of handlePasswordReset
UpdateErrorText(err) ==
  IF Truthy(ResponseMessage(err)) THEN ResponseMessage(err)
  ELSE IF err.response /\ err.status = 404 THEN NoMemberError
  ELSE IF err.response /\ err.status = 400 THEN ResetCheckInputError
  ELSE ResetGenericError

\* onClick of the "forgot password" button of the login form
ShowPasswordResetClick ==
  /\ route = "/login"
  /\ ~showPasswordReset
  /\ showPasswordReset' = TRUE
  /\ authEvent' = [site |-> "reset", kind |-> "show"]
  /\ UNCHANGED <<route, loginVars, passwordResetStep, passwordResetData,
                 passwordResetLoading, passwordResetError,
                 passwordResetSuccess, verifyCalls, updateReqs,
                 verifiedIdentity, registerVars,
                 escaped, adminVars, labelVars>>

\* The fields the wizard renders
ResetFieldsShown ==
  IF passwordResetStep = 1 THEN {"name", "email"}
  ELSE IF Truthy(passwordResetSuccess) THEN {}
  ELSE {"newPassword", "confirmPassword"}

\* handlePasswordResetInputChange
handlePasswordResetInputChange(name, value) ==
  /\ route = "/login"
  /\ showPasswordReset
  /\ name \in ResetFieldsShown
  /\ passwordResetData' = [passwordResetData EXCEPT ![name] = value]
  /\ authEvent' = [site |-> "reset", kind |-> "input"]
  /\ UNCHANGED <<route, loginVars, showPasswordReset, passwordResetStep,
                 passwordResetLoading, passwordResetError,
                 passwordResetSuccess, verifyCalls, updateReqs,
                 verifiedIdentity, registerVars,
                 escaped, adminVars, labelVars>>

\* handleNextStep without its blank check
handleNextStepNoBlankCheck ==
  /\ route = "/login"
  /\ showPasswordReset
  /\ passwordResetStep = 1
  /\ ~passwordResetLoading
  /\ Len(verifyCalls) < MaxVerifyCalls
  /\ passwordResetError' = <<>>
  /\ passwordResetLoading' = TRUE
  /\ verifyCalls' =
       Append(verifyCalls,
              [name |-> trim(passwordResetData.name),
               email |-> trim(passwordResetData.email),
               verify |-> "pending", timer |-> "pending"])
  /\ authEvent' = [site |-> "verify", kind |-> "submit"]
  /\ UNCHANGED <<route, loginVars, showPasswordReset, passwordResetStep,
                 passwordResetData, passwordResetSuccess, updateReqs,
                 verifiedIdentity, registerVars, escaped, adminVars,
                 labelVars>>

\* handleNextStep up to its await: the blank check, then verifyMember with the
\* trimmed name and email and the 5 s timer, raced
handleNextStep ==
  /\ route = "/login"
  /\ showPasswordReset
  /\ passwordResetStep = 1
  /\ ~passwordResetLoading
  /\ IF trim(passwordResetData.name) = <<>>
        \/ trim(passwordResetData.email) = <<>>
     THEN /\ passwordResetError' = ResetBlankError
          /\ authEvent' = [site |-> "verify", kind |-> "blank"]
          /\ UNCHANGED <<passwordResetLoading, verifyCalls>>
     ELSE /\ Len(verifyCalls) < MaxVerifyCalls
          /\ passwordResetError' = <<>>
          /\ passwordResetLoading' = TRUE
          /\ verifyCalls' =
               Append(verifyCalls,
                      [name |-> trim(passwordResetData.name),
                       email |-> trim(passwordResetData.email),
                       verify |-> "pending", timer |-> "pending"])
          /\ authEvent' = [site |-> "verify", kind |-> "submit"]
  /\ UNCHANGED <<route, loginVars, showPasswordReset, passwordResetStep,
                 passwordResetData, passwordResetSuccess, updateReqs, verifiedIdentity,
                 registerVars, escaped, adminVars, labelVars>>

\* A call's promise settled: the call is forgotten once both have
CallsAfter(k, field, value) ==
  LET call == [verifyCalls[k] EXCEPT ![field] = value]
  IN IF call.verify # "pending" /\ call.timer # "pending"
     THEN RemoveAt(verifyCalls, k)
     ELSE [verifyCalls EXCEPT ![k] = call]

\* handleNextStep after its await when the race was won by outcome: try /
\* catch / finally.  The setters act on the mounted page whatever it shows.
VerifyContinuation(outcome) ==
  /\ IF outcome.ok
     THEN passwordResetStep' = 2 /\ UNCHANGED passwordResetError
     ELSE /\ passwordResetError' = VerifyErrorText(outcome)
          /\ UNCHANGED passwordResetStep
  /\ passwordResetLoading' = FALSE

\* verifyMember awaited on its own: its result is taken whatever the timer did
VerifySettleNoRace(k, outcome) ==
  /\ route = "/login"
  /\ verifyCalls[k].verify = "pending"
  /\ verifyCalls' = CallsAfter(k, "verify", "settled")
  /\ VerifyContinuation(outcome)
  /\ authEvent' = [site |-> "verify", kind |-> "settle",
                   won |-> verifyCalls[k].timer = "pending", resp |-> outcome]
  /\ verifiedIdentity' =
       IF outcome.ok
       THEN [name |-> verifyCalls[k].name, email |-> verifyCalls[k].email]
       ELSE verifiedIdentity
  /\ UNCHANGED <<route, loginVars, showPasswordReset, passwordResetData,
                 passwordResetSuccess, updateReqs, registerVars, escaped,
                 adminVars, labelVars>>

\* memberAPI.verifyMember of call k settles
VerifySettle(k, outcome) ==
  /\ route = "/login"
  /\ verifyCalls[k].verify = "pending"
  /\ verifyCalls' = CallsAfter(k, "verify", "settled")
  /\ IF verifyCalls[k].timer = "pending"
     THEN VerifyContinuation(outcome)
     ELSE UNCHANGED <<passwordResetStep, passwordResetError,
                      passwordResetLoading>>
  /\ authEvent' = [site |-> "verify", kind |-> "settle",
                   won |-> verifyCalls[k].timer = "pending", resp |-> outcome]
  /\ verifiedIdentity' =
       IF verifyCalls[k].timer = "pending" /\ outcome.ok
       THEN [name |-> verifyCalls[k].name, email |-> verifyCalls[k].email]
       ELSE verifiedIdentity
  /\ UNCHANGED <<route, loginVars, showPasswordReset, passwordResetData,
                 passwordResetSuccess, updateReqs, registerVars, escaped,
                 adminVars, labelVars>>

\* The 5 s timer of call k fires and rejects its promise
TimerFire(k) ==
  /\ route = "/login"
  /\ verifyCalls[k].timer = "pending"
  /\ verifyCalls' = CallsAfter(k, "timer", "fired")
  /\ IF verifyCalls[k].verify = "pending"
     THEN VerifyContinuation(TimeoutError)
     ELSE UNCHANGED <<passwordResetStep, passwordResetError,
                      passwordResetLoading>>
  /\ authEvent' = [site |-> "verify", kind |-> "timer",
                   won |-> verifyCalls[k].verify = "pending",
                   resp |-> TimeoutError]
  /\ UNCHANGED <<route, loginVars, showPasswordReset, passwordResetData,
                 passwordResetSuccess, updateReqs, verifiedIdentity,
                 registerVars, escaped, adminVars, labelVars>>

\* onClick of the "previous" button of the new-password form
BackToStep1Click ==
  /\ route = "/login"
  /\ showPasswordReset
  /\ passwordResetStep = 2
  /\ ~Truthy(passwordResetSuccess)
  /\ passwordResetStep' = 1
  /\ authEvent' = [site |-> "reset", kind |-> "previous"]
  /\ UNCHANGED <<route, loginVars, showPasswordReset, passwordResetData,
                 passwordResetLoading, passwordResetError,
                 passwordResetSuccess, verifyCalls, updateReqs,
                 verifiedIdentity, registerVars,
                 escaped, adminVars, labelVars>>

\* handleBackToLogin: the button of step 1 and of the success view
handleBackToLogin ==
  /\ route = "/login"
  /\ showPasswordReset
  /\ passwordResetStep = 1 \/ Truthy(passwordResetSuccess)
  /\ showPasswordReset' = FALSE
  /\ passwordResetStep' = 1
  /\ passwordResetData' = EmptyResetData
  /\ passwordResetError' = <<>>
  /\ passwordResetSuccess' = <<>>
  /\ authEvent' = [site |-> "reset", kind |-> "back"]
  /\ UNCHANGED <<route, loginVars, passwordResetLoading, verifyCalls,
                 updateReqs, verifiedIdentity, registerVars, escaped,
                 adminVars, labelVars>>

\* handlePasswordReset up to its await (onSubmit of the new-password form,
\* whose submit button is disabled while passwordResetLoading)
handlePasswordReset ==
  /\ route = "/login"
  /\ showPasswordReset
  /\ passwordResetStep = 2
  /\ ~Truthy(passwordResetSuccess)
  /\ ~passwordResetLoading
  /\ passwordResetSuccess' = <<>>
  /\ IF passwordResetData.newPassword # passwordResetData.confirmPassword
     THEN /\ passwordResetError' = ResetMismatchError
          /\ passwordResetLoading' = FALSE
          /\ authEvent' = [site |-> "update", kind |-> "mismatch"]
          /\ UNCHANGED updateReqs
     ELSE /\ passwordResetError' = <<>>
          /\ passwordResetLoading' = TRUE
          /\ updateReqs' = Append(updateReqs, [data |-> passwordResetData])
          /\ authEvent' = [site |-> "update", kind |-> "submit"]
  /\ UNCHANGED <<route, loginVars, showPasswordReset, passwordResetStep,
                 passwordResetData, verifyCalls, verifiedIdentity,
                 registerVars, escaped,
                 adminVars, labelVars>>

\* handlePasswordReset after its await: try / catch / finally
UpdateSettle(k, outcome) ==
  /\ route = "/login"
  /\ k \in 1..Len(updateReqs)
  /\ updateReqs' = RemoveAt(updateReqs, k)
  /\ IF outcome.ok
     THEN /\ passwordResetSuccess' = ResetSuccessText
          /\ passwordResetData' = EmptyResetData
          /\ UNCHANGED passwordResetError
     ELSE /\ passwordResetError' = UpdateErrorText(outcome)
          /\ UNCHANGED <<passwordResetSuccess, passwordResetData>>
  /\ passwordResetLoading' = FALSE
  /\ authEvent' = [site |-> "update", kind |-> "settle", resp |-> outcome]
  /\ UNCHANGED <<route, loginVars, showPasswordReset, passwordResetStep,
                 verifyCalls, verifiedIdentity, registerVars, escaped,
                 adminVars, labelVars>>

\* A fulfilled verifyMember, findAndUpdatePassword or signup
Fulfilled == [ok |-> TRUE]

-----------------------------------------------------------------------------
(* RegisterPage                                                            *)

\* "비밀번호가 일치하지 않습니다."
RegMismatchError == <<"g", "m", "i", "s">>
\* "이용약관에 동의해주세요."
RegAgreeError == <<"g", "a", "g", "r">>
\* "서버 연결에 실패했습니다. 다시 시도해주세요."
RegNetworkError == <<"g", "n", "e", "t">>

\* The fields of formData that handleSubmit reads, at their initial values
EmptyRegFormData ==
  [password |-> <<>>, confirmPassword |-> <<>>, agree |-> FALSE]

\* What the user enters into the registration form
RegInputs ==
  [password |-> {<<"p">>},
   confirmPassword |-> {<<"p">>, <<"q">>},
   agree |-> BOOLEAN]

\* The catch block of RegisterPage's handleSubmit
RegisterErrorText(err) ==
  IF Truthy(ResponseMessage(err)) THEN ResponseMessage(err)
  ELSE RegNetworkError

\* RegisterPage handleInputChange
RegisterInput(name, value) ==
  /\ route = "/register"
  /\ regFormData' = [regFormData EXCEPT ![name] = value]
  /\ authEvent' = [site |-> "signup", kind |-> "input"]
  /\ UNCHANGED <<route, loginVars, resetVars, regIsLoading, regError,
                 regPending, escaped, adminVars, labelVars>>

\* RegisterPage handleSubmit with the agreement check before the password check
RegisterSubmitAgreeFirst ==
  /\ route = "/register"
  /\ ~regIsLoading
  /\ IF ~regFormData.agree
     THEN /\ regError' = RegAgreeError
          /\ authEvent' = [site |-> "signup", kind |-> "agree"]
          /\ UNCHANGED <<regIsLoading, regPending>>
     ELSE IF regFormData.password # regFormData.confirmPassword
     THEN /\ regError' = RegMismatchError
          /\ authEvent' = [site |-> "signup", kind |-> "mismatch"]
          /\ UNCHANGED <<regIsLoading, regPending>>
     ELSE /\ regError' = <<>>
          /\ regIsLoading' = TRUE
          /\ regPending' = TRUE
          /\ authEvent' = [site |-> "signup", kind |-> "submit"]
  /\ UNCHANGED <<route, loginVars, resetVars, regFormData, escaped,
                 adminVars, labelVars>>

\* RegisterPage handleSubmit up to its await (the submit button is disabled
\* while isLoading)
RegisterSubmit ==
  /\ route = "/register"
  /\ ~regIsLoading
  /\ IF regFormData.password # regFormData.confirmPassword
     THEN /\ regError' = RegMismatchError
          /\ authEvent' = [site |-> "signup", kind |-> "mismatch"]
          /\ UNCHANGED <<regIsLoading, regPending>>
     ELSE IF ~regFormData.agree
     THEN /\ regError' = RegAgreeError
          /\ authEvent' = [site |-> "signup", kind |-> "agree"]
          /\ UNCHANGED <<regIsLoading, regPending>>
     ELSE /\ regError' = <<>>
          /\ regIsLoading' = TRUE
          /\ regPending' = TRUE
          /\ authEvent' = [site |-> "signup", kind |-> "submit"]
  /\ UNCHANGED <<route, loginVars, resetVars, regFormData, escaped,
                 adminVars, labelVars>>

\* RegisterPage handleSubmit after its await: try / catch / finally
RegisterSettle(outcome) ==
  /\ route = "/register"
  /\ regPending
  /\ regPending' = FALSE
  /\ regIsLoading' = FALSE
  /\ IF outcome.ok
     THEN route' = "/register/success" /\ UNCHANGED regError
     ELSE regError' = RegisterErrorText(outcome) /\ UNCHANGED route
  /\ authEvent' = [site |-> "signup", kind |-> "settle", resp |-> outcome]
  /\ UNCHANGED <<loginVars, resetVars, regFormData, escaped, adminVars,
                 labelVars>>

-----------------------------------------------------------------------------
(* Label functions applied to an argument                                  *)

\* getStatusLabel of TradeDetailModal without its default branch's
\* pass-through
TradeDetailModal_getStatusLabelBlank(status) ==
  CASE status = "REQUEST" -> "georae yocheong"
    [] status = "ACCEPT" -> "georae surak"
    [] status = "CANCELED" -> "georae chwiso"
    [] status = "COMPLETED" -> "georae wallyo"
    [] OTHER -> ""

\* getStatusLabel of TradeDetailModal
TradeDetailModal_getStatusLabel(status) ==
  CASE status = "REQUEST" -> "georae yocheong"
    [] status = "ACCEPT" -> "georae surak"
    [] status = "CANCELED" -> "georae chwiso"
    [] status = "COMPLETED" -> "georae wallyo"
    [] OTHER -> status

\* A result not computed yet
NotComputed == <<"not computed">>
NotComputedLabel == "not computed"

\* Category values: the six wire codes, the six labels, the fallback labels,
\* empty, and unrecognized texts
CategoryArgs ==
  {CodeProduct, CodeMethod, CodeUsage, CodeDesign, CodeTrademark,
   CodeCopyright} \cup koreanCategories
  \cup {LabelOther, NoCategory, <<>>, <<"E", "T", "C">>,
        <<"p", "r", "o", "d", "u", "c", "t">>}

\* Status values: the four wire values, and values the frontend does not know
\* and a label in the place of a wire value
StatusArgs == {"REQUEST", "ACCEPT", "CANCELED", "COMPLETED", "HOLD", "request",
               "", StatusLabelAccept}

\* getCategoryLabel(categoryArg)
ApplyCategoryLabel ==
  /\ categoryLabel' = getCategoryLabel(categoryArg)
  /\ UNCHANGED <<categoryArg, statusArg, statusLabel, modalStatusLabel,
                 filterArg, statusMatches, adminVars, authVars>>

\* The label becomes the argument of the next call
FeedCategoryLabel ==
  /\ categoryLabel # NotComputed
  /\ categoryArg' = categoryLabel
  /\ categoryLabel' = NotComputed
  /\ UNCHANGED <<statusArg, statusLabel, modalStatusLabel, filterArg,
                 statusMatches, adminVars, authVars>>

\* getStatusLabel(statusArg) of the table row and of the modal
ApplyStatusLabel ==
  /\ statusLabel' = getStatusLabel(statusArg)
  /\ modalStatusLabel' = TradeDetailModal_getStatusLabel(statusArg)
  /\ UNCHANGED <<categoryArg, categoryLabel, statusArg, filterArg,
                 statusMatches, adminVars, authVars>>

\* matchesStatus of a record with status statusArg under filterArg
ApplyStatusFilter ==
  /\ statusMatches' =
       IF matchesStatus([status |-> statusArg], filterArg) THEN "yes" ELSE "no"
  /\ UNCHANGED <<categoryArg, categoryLabel, statusArg, statusLabel,
                 modalStatusLabel, filterArg, adminVars, authVars>>

-----------------------------------------------------------------------------
(* Components at rest                                                      *)

\* LoginPage and RegisterPage with their useState initial values
AuthAtRest ==
  /\ loginIsLoading = FALSE
  /\ loginError = <<>>
  /\ loginPending = FALSE
  /\ session = NullObj
  /\ showPasswordReset = FALSE
  /\ passwordResetStep = 1
  /\ passwordResetData = EmptyResetData
  /\ passwordResetLoading = FALSE
  /\ passwordResetError = <<>>
  /\ passwordResetSuccess = <<>>
  /\ verifyCalls = <<>>
  /\ updateReqs = <<>>
  /\ verifiedIdentity = [name |-> <<>>, email |-> <<>>]
  /\ regFormData = EmptyRegFormData
  /\ regIsLoading = FALSE
  /\ regError = <<>>
  /\ regPending = FALSE
  /\ authEvent = [site |-> "none", kind |-> "none"]
  /\ escaped = {}

\* No label computed
LabelsAtRest ==
  /\ categoryArg = <<>>
  /\ categoryLabel = NotComputed
  /\ statusArg = ""
  /\ statusLabel = NotComputedLabel
  /\ modalStatusLabel = NotComputedLabel
  /\ filterArg = "ALL"
  /\ statusMatches = NotComputedLabel

\* The admin trade page is the route shown
NonAdminAtRest == route = "/admin/trades" /\ AuthAtRest /\ LabelsAtRest

-----------------------------------------------------------------------------
(* Specification                                                           *)

\* AdminTradesPage just mounted: the list is being fetched, no modal
AdminFresh ==
  /\ trades = <<>>
  /\ listIsLoading = TRUE
  /\ listError = Null
  /\ fanouts = <<>>
  /\ tradesWithPostInfo = <<>>
  /\ searchTerm = <<>>
  /\ statusFilter = "ALL"
  /\ sortBy = "createdAt"
  /\ sortOrder = "desc"
  /\ selectedTradeId = 0
  /\ isModalOpen = FALSE
  /\ filteredTrades = <<>>
  /\ sortedTrades = <<>>
  /\ trade = NullObj
  /\ isLoading = FALSE
  /\ error = Null
  /\ detailReqs = <<>>
  /\ lastEvent = [kind |-> "none"]

Init == AdminFresh /\ NonAdminAtRest

\* AdminTradesPage not mounted: nothing fetched, no request of it in flight
AdminUnmounted ==
  /\ trades = <<>>
  /\ listIsLoading = FALSE
  /\ listError = Null
  /\ fanouts = <<>>
  /\ tradesWithPostInfo = <<>>
  /\ searchTerm = <<>>
  /\ statusFilter = "ALL"
  /\ sortBy = "createdAt"
  /\ sortOrder = "desc"
  /\ selectedTradeId = 0
  /\ isModalOpen = FALSE
  /\ filteredTrades = <<>>
  /\ sortedTrades = <<>>
  /\ trade = NullObj
  /\ isLoading = FALSE
  /\ error = Null
  /\ detailReqs = <<>>
  /\ lastEvent = [kind |-> "none"]

PageNext ==
  \/ \E list \in BackendLists : FetchTradesOk(list)
  \/ \E msg \in ListErrors : FetchTradesFail(msg)
  \/ Refetch
  \/ \E f \in 1..Len(fanouts) : \E i \in 1..Len(fanouts[f].slots) :
       \E resp \in DetailResponses(fanouts[f].trades[i].id) :
         EnrichSettle(f, i, resp)

ViewNext ==
  \/ \E term \in SearchTerms : SetSearchTerm(term)
  \/ \E filter \in StatusOptions : SetStatusFilter(filter)
  \/ \E column \in SortColumns : SortClick(column)

ModalNext ==
  \/ \E id \in RowIds : handleTradeClick(id)
  \/ \E button \in {"x", "footer"} : handleClose(button)
  \/ BackdropClick
  \/ RetryClick
  \/ \E k \in 1..Len(detailReqs) :
       \E resp \in DetailResponses(detailReqs[k].tradeId) : DetailSettle(k, resp)

\* The admin trade page: list fetch, enrichment fan-outs and view state
Next == PageNext \/ ViewNext

Spec == Init /\ [][Next]_vars

\* Every result fetchPostInfoForTrades(list) can hand to setTradesWithPostInfo
RECURSIVE EnrichedLists(_)
EnrichedLists(list) ==
  IF list = <<>> THEN {<<>>}
  ELSE {<<EnrichOne(Head(list), r)>> \o rest :
          r \in DetailResponses(Head(list).id),
          rest \in EnrichedLists(Tail(list))}

\* The page at rest after a list was fetched and enriched, default view state
Loaded(lists) ==
  /\ trades \in lists
  /\ listIsLoading = FALSE
  /\ listError = Null
  /\ fanouts = <<>>
  /\ tradesWithPostInfo \in EnrichedLists(trades)
  /\ searchTerm = <<>>
  /\ statusFilter = "ALL"
  /\ sortBy = "createdAt"
  /\ sortOrder = "desc"
  /\ selectedTradeId = 0
  /\ isModalOpen = FALSE
  /\ filteredTrades = Filter(tradesWithPostInfo, searchTerm, statusFilter)
  /\ sortedTrades \in SortOutcomes(filteredTrades, sortBy, sortOrder)
  /\ trade = NullObj
  /\ isLoading = FALSE
  /\ error = Null
  /\ detailReqs = <<>>
  /\ lastEvent = [kind |-> "none"]
  /\ NonAdminAtRest

\* The trade-detail modal over a loaded table
InitModal == Loaded({<<T1, T2>>, <<T2>>})

SpecModal == InitModal /\ [][ModalNext]_vars

\* Lists for the view-model: statuses REQUEST, ACCEPT, ACCEPT, COMPLETED;
\* an unknown status; prices 300, 100, 200
ViewLists == {<<T1, T2, T3, T4>>, <<T5, T1>>, <<T1, T2, T3>>}

\* The filter/sort view-model over an enriched list
InitView == Loaded(ViewLists)

SpecView == InitView /\ [][ViewNext]_vars

\* The login form has no request in flight and shows no error
LoginUntouched == ~loginPending /\ loginError = <<>>

\* LoginPage: the login form and the password-reset wizard.  The two share no
\* state, and the wizard is entered from an untouched login form.
LoginNext ==
  \/ LoginSubmit
  \/ \E resp \in LoginAnswers \cup ApiFailures : LoginSettle(resp)
  \/ (LoginUntouched /\ ShowPasswordResetClick)
  \/ \E name \in DOMAIN ResetInputs : \E value \in ResetInputs[name] :
       handlePasswordResetInputChange(name, value)
  \/ handleNextStep
  \/ \E k \in 1..Len(verifyCalls) :
       \E outcome \in {Fulfilled} \cup ApiFailures : VerifySettle(k, outcome)
  \/ \E k \in 1..Len(verifyCalls) : TimerFire(k)
  \/ BackToStep1Click
  \/ handleBackToLogin
  \/ handlePasswordReset
  \/ \E k \in 1..Len(updateReqs) :
       \E outcome \in {Fulfilled} \cup ApiFailures : UpdateSettle(k, outcome)

RegisterNext ==
  \/ \E name \in DOMAIN RegInputs : \E value \in RegInputs[name] :
       RegisterInput(name, value)
  \/ RegisterSubmit
  \/ \E outcome \in {Fulfilled} \cup ApiFailures : RegisterSettle(outcome)

AuthNext == LoginNext \/ RegisterNext

\* The login page or the registration page just mounted
InitAuth ==
  /\ route \in {"/login", "/register"}
  /\ AdminUnmounted
  /\ AuthAtRest
  /\ LabelsAtRest

\* The authentication pages
SpecAuth == InitAuth /\ [][AuthNext]_vars

\* Every call site of a request: the admin trade page from its mount with the
\* list fetched once (the refresh button is not pressed), its modal, and the
\* authentication pages
SitesNext ==
  \/ \E list \in BackendLists : FetchTradesOk(list)
  \/ \E msg \in ListErrors : FetchTradesFail(msg)
  \/ \E f \in 1..Len(fanouts) : \E i \in 1..Len(fanouts[f].slots) :
       \E resp \in DetailResponses(fanouts[f].trades[i].id) :
         EnrichSettle(f, i, resp)
  \/ ModalNext
  \/ AuthNext

SpecSites == (Init \/ InitAuth) /\ [][SitesNext]_vars

LabelNext ==
  \/ ApplyCategoryLabel
  \/ FeedCategoryLabel
  \/ ApplyStatusLabel
  \/ ApplyStatusFilter

\* The label functions before a call, for every argument
InitLabels ==
  /\ AdminUnmounted
  /\ route = "/admin/trades"
  /\ AuthAtRest
  /\ categoryArg \in CategoryArgs
  /\ categoryLabel = NotComputed
  /\ statusArg \in StatusArgs
  /\ statusLabel = NotComputedLabel
  /\ modalStatusLabel = NotComputedLabel
  /\ filterArg \in StatusOptions
  /\ statusMatches = NotComputedLabel

\* The label functions
SpecLabels == InitLabels /\ [][LabelNext]_vars

\* A refresh of a loaded two-trade table, which the backend answers with one
\* of the two trades or with both
RefreshNext ==
  \/ Refetch
  \/ \E list \in {<<T2>>, <<T1, T2>>} : FetchTradesOk(list)
  \/ \E f \in 1..Len(fanouts) : \E i \in 1..Len(fanouts[f].slots) :
       \E resp \in DetailResponses(fanouts[f].trades[i].id) :
         EnrichSettle(f, i, resp)

\* The admin trade page from a loaded table, refreshed
SpecRefresh == Loaded({<<T1, T2>>}) /\ [][RefreshNext]_vars

-----------------------------------------------------------------------------
(* Requests settle                                                         *)

\* The call sites when every request in flight eventually settles and every
\* timer set eventually fires
SpecSitesLive ==
  /\ SpecSites
  /\ WF_vars(\E resp \in LoginAnswers \cup ApiFailures : LoginSettle(resp))
  /\ WF_vars(\E k \in 1..Len(verifyCalls) :
               \E outcome \in {Fulfilled} \cup ApiFailures :
                 VerifySettle(k, outcome))
  /\ WF_vars(\E k \in 1..Len(verifyCalls) : TimerFire(k))
  /\ WF_vars(\E k \in 1..Len(updateReqs) :
               \E outcome \in {Fulfilled} \cup ApiFailures :
                 UpdateSettle(k, outcome))
  /\ WF_vars(\E outcome \in {Fulfilled} \cup ApiFailures :
               RegisterSettle(outcome))
  /\ WF_vars(\E k \in 1..Len(detailReqs) :
               \E resp \in DetailResponses(detailReqs[k].tradeId) :
                 DetailSettle(k, resp))

-----------------------------------------------------------------------------
(* Trade-detail modal: what is on screen                                   *)

\* The branch the modal's render takes
ModalState ==
  IF ~(Mounted /\ isModalOpen) THEN "Closed"
  ELSE IF isLoading THEN "Loading"
  ELSE IF Truthy(error) THEN "Failed"
  ELSE IF trade # NullObj THEN "Loaded"
  ELSE "Blank"

\* C1: stale detail-fetch guard.  Whenever the modal shows trade data, it is
\* the data of the trade currently requested: a result whose trade identifier
\* is no longer the requested one is never applied.
C1_StaleResultNeverShown ==
  ModalState = "Loaded" => trade.id = selectedTradeId

-----------------------------------------------------------------------------
(* Admin trade page: enrichment and projection                             *)

\* A fan-out resolved in this step and handed its results to the page
C2_EnrichCompletion ==
  \E f \in 1..Len(fanouts) :
     /\ fanouts' = RemoveAt(fanouts, f)
     /\ tradesWithPostInfo' \in EnrichedLists(fanouts[f].trades)

\* An empty fetched list arrived in this step
C2_EmptyReset ==
  /\ listIsLoading /\ ~listIsLoading'
  /\ trades' = <<>>
  /\ tradesWithPostInfo' = <<>>

\* C2: in every reachable state the displayed sequence is the filter + sort
\* of tradesWithPostInfo under the current view state; tradesWithPostInfo
\* changes only when an enrichment completes or an empty list was fetched; a
\* change of the view state changes neither it, nor the fetched list, nor the
\* set of requests in flight.
C2_Projection ==
  /\ [](/\ filteredTrades = Filter(tradesWithPostInfo, searchTerm, statusFilter)
        /\ sortedTrades \in SortOutcomes(filteredTrades, sortBy, sortOrder))
  /\ [][tradesWithPostInfo' # tradesWithPostInfo
          => (C2_EnrichCompletion \/ C2_EmptyReset)]_vars
  /\ [][viewVars' # viewVars => pageVars' = pageVars]_vars

\* An enriched list of two is on screen, narrowed by a search term and sorted
\* by a column the user chose.
C2_Witness ==
  /\ Len(tradesWithPostInfo) = 2
  /\ searchTerm = <<"B">>
  /\ Len(sortedTrades) = 1
  /\ sortBy = "price"
  /\ sortOrder = "asc"

PendingCount(slots) ==
  Cardinality({i \in 1..Len(slots) : slots[i].state = "pending"})

\* C4: a fan-out for N trades starts with N pending fetches, one per trade, all
\* issued in the step that starts it; tradesWithPostInfo receives its results
\* in the single step in which its last fetch settles, whatever the outcomes
\* and their order; a step that settles a fetch while others are pending, a
\* failure included, keeps the fan-out waiting and shows nothing.
C4_JoinAll ==
  [][/\ Len(fanouts') > Len(fanouts) =>
          LET fo == fanouts'[Len(fanouts')]
          IN /\ fanouts' = Append(fanouts, fo)
             /\ fo.trades = trades'
             /\ Len(fo.slots) = Len(trades')
             /\ \A i \in 1..Len(fo.slots) : fo.slots[i] = Pending
             /\ tradesWithPostInfo' = tradesWithPostInfo
     /\ Len(fanouts') < Len(fanouts) =>
          \E f \in 1..Len(fanouts) :
             /\ fanouts' = RemoveAt(fanouts, f)
             /\ PendingCount(fanouts[f].slots) = 1
             /\ Len(tradesWithPostInfo') = Len(fanouts[f].trades)
             /\ \A i \in 1..Len(fanouts[f].slots) :
                  /\ tradesWithPostInfo'[i].id = fanouts[f].trades[i].id
                  /\ fanouts[f].slots[i].state = "settled" =>
                       tradesWithPostInfo'[i] = fanouts[f].slots[i].value
     /\ (Len(fanouts') = Len(fanouts) /\ fanouts' # fanouts) =>
          /\ tradesWithPostInfo' = tradesWithPostInfo
          /\ \E f \in 1..Len(fanouts) :
               /\ PendingCount(fanouts'[f].slots)
                    = PendingCount(fanouts[f].slots) - 1
               /\ PendingCount(fanouts'[f].slots) > 0
     /\ (tradesWithPostInfo' # tradesWithPostInfo /\ tradesWithPostInfo' # <<>>)
          => Len(fanouts') < Len(fanouts)
    ]_vars

\* A fan-out in which one fetch has failed and another is still awaited,
\* with nothing of it shown yet.
C4_Witness ==
  /\ tradesWithPostInfo = <<>>
  /\ \E f \in 1..Len(fanouts) :
       \E i, j \in 1..Len(fanouts[f].slots) :
          /\ fanouts[f].slots[i].state = "settled"
          /\ ~fanouts[f].slots[i].ok
          /\ fanouts[f].slots[j].state = "pending"

\* What C3 expects of one trade whose detail fetch settled with resp: the
\* fallback labels after a failure, the fetched title and the normalized
\* fetched category after a success.
C3_Expected(t, resp) ==
  IF resp.ok
  THEN [postTitle |-> IF resp.data.postTitle # Undefined
                      THEN resp.data.postTitle ELSE NoTitle,
        postCategory |-> getCategoryLabel(resp.data.postCategory)] @@ t
  ELSE [postTitle |-> NoTitle, postCategory |-> NoCategory] @@ t

\* C3: the step in which a fan-out over N trades completes sets N records in
\* input order, each with its trade's base fields unchanged; a record whose
\* fetch failed has the two fallback labels, a record whose fetch succeeded
\* has the fetched title and the normalized fetched category.
C3_PartialFailure ==
  [][Len(fanouts') < Len(fanouts) =>
       \E f \in 1..Len(fanouts) :
          LET in == fanouts[f].trades
              slots == fanouts[f].slots
              out == tradesWithPostInfo'
          IN /\ fanouts' = RemoveAt(fanouts, f)
             /\ Len(out) = Len(in)
             /\ \A i \in 1..Len(in) :
                  /\ \A field \in DOMAIN in[i] : out[i][field] = in[i][field]
                  /\ \E resp \in DetailResponses(in[i].id) :
                       /\ out[i] = C3_Expected(in[i], resp)
                       /\ slots[i].state = "settled" =>
                            /\ resp.ok = slots[i].ok
                            /\ resp.ok => resp.data = slots[i].data
    ]_vars

IdsOf(list) == [i \in 1..Len(list) |-> list[i].id]

\* C5: once no enrichment fan-out is in flight, tradesWithPostInfo holds the
\* records of the most recent trade list, whatever the order in which the
\* fan-outs completed.
C5_LatestListWins ==
  fanouts = <<>> => IdsOf(tradesWithPostInfo) = IdsOf(trades)

-----------------------------------------------------------------------------
(* Trade-detail modal: state machine                                       *)

\* C6: the modal is always Closed, Loading, Loaded or Failed; a step that
\* opens it leads to Loading and issues one fetch, for the identifier opened;
\* a step that leaves Loading without closing is the settling of a fetch of
\* the modal, to Loaded with the trade data set and no error when it
\* succeeded, to Failed with an error when it failed.
C6_StateMachine ==
  /\ [](ModalState \in {"Closed", "Loading", "Loaded", "Failed"})
  /\ [][(ModalState = "Closed" /\ ModalState' # "Closed") =>
          /\ ModalState' = "Loading"
          /\ selectedTradeId' # 0
          /\ detailReqs' = Append(detailReqs, [tradeId |-> selectedTradeId',
                                               live |-> TRUE])]_vars
  /\ [][(ModalState = "Loading" /\ ModalState' \notin {"Loading", "Closed"}) =>
          /\ lastEvent'.kind = "settle" /\ lastEvent'.live
          /\ Len(detailReqs') = Len(detailReqs) - 1
          /\ IF lastEvent'.resp.ok
             THEN /\ ModalState' = "Loaded"
                  /\ trade' = DetailData(lastEvent'.resp)
                  /\ error' = Null
             ELSE /\ ModalState' = "Failed"
                  /\ Truthy(error')]_vars

\* The modal shows the data its fetch brought.
C6_Witness ==
  /\ ModalState = "Loaded"
  /\ lastEvent.kind = "settle"
  /\ lastEvent.resp.tradeId = selectedTradeId

\* C7: each closing gesture, the header X, the footer button and a click on
\* the backdrop, leaves the modal Closed with trade data and error cleared.
C7_EveryCloseGestureCloses ==
  lastEvent.kind \in {"x", "footer", "backdrop"} =>
    /\ ModalState = "Closed"
    /\ trade = NullObj
    /\ error = Null

\* C8: after a fetch of the modal failed, the modal is Failed, not loading,
\* and its error is the backend payload's message when there is one, the
\* fixed generic message otherwise (an absent or empty message).
C8_FailureMessage ==
  (lastEvent.kind = "settle" /\ lastEvent.live /\ ~lastEvent.resp.ok) =>
    /\ ModalState = "Failed"
    /\ ~isLoading
    /\ lastEvent.resp.message \notin {Undefined, <<>>} =>
         error = lastEvent.resp.message
    /\ lastEvent.resp.message \in {Undefined, <<>>} =>
         error = GenericDetailError

\* A failure with a backend message, and that message on screen.
C8_Witness ==
  /\ lastEvent.kind = "settle" /\ lastEvent.live /\ ~lastEvent.resp.ok
  /\ Len(lastEvent.resp.message) > 1
  /\ error = lastEvent.resp.message

\* C9: retry is pressed in Failed only; it clears the error, re-enters Loading
\* and issues one new fetch, for the trade identifier whose fetch failed.
C9_RetrySameTrade ==
  [][lastEvent'.kind = "retry" =>
       /\ ModalState = "Failed"
       /\ ModalState' = "Loading"
       /\ error' = Null
       /\ Len(detailReqs') = Len(detailReqs) + 1
       /\ (lastEvent.kind = "settle" /\ lastEvent.live /\ ~lastEvent.resp.ok) =>
            detailReqs'[Len(detailReqs')].tradeId = lastEvent.resp.tradeId
    ]_vars

-----------------------------------------------------------------------------
(* Filter                                                                  *)

\* term occurs in text, character by character (case-sensitive)
C10_Substring(term, text) ==
  \E shift \in 0..Len(text) :
     /\ shift + Len(term) <= Len(text)
     /\ \A k \in 1..Len(term) : text[shift + k] = term[k]

\* The value of a non-empty text of decimal digits
RECURSIVE C10_DecimalValue(_)
C10_DecimalValue(digits) ==
  IF Len(digits) = 1 THEN CharCode(digits[1]) - 1
  ELSE 10 * C10_DecimalValue(SubSeq(digits, 1, Len(digits) - 1))
       + (CharCode(digits[Len(digits)]) - 1)

\* text is the decimal string of n: digits only, no leading zero, value n
C10_IsDecimalOf(text, n) ==
  /\ Len(text) >= 1
  /\ \A k \in 1..Len(text) : CharCode(text[k]) <= 10
  /\ (Len(text) > 1 => text[1] # "0")
  /\ C10_DecimalValue(text) = n

\* The filter predicate as the specification words it
C10_Passes(t) ==
  /\ (statusFilter = "ALL" \/ statusFilter = t.status)
  /\ \/ \E text \in {toString(t.id), toString(t.price)} :
          C10_Substring(searchTerm, text)
     \/ (t.postTitle # Undefined /\ C10_Substring(searchTerm, t.postTitle))
     \/ (t.postCategory # Undefined
           /\ C10_Substring(searchTerm, t.postCategory))

\* Positions of tradesWithPostInfo that pass
C10_Kept == {i \in 1..Len(tradesWithPostInfo) : C10_Passes(tradesWithPostInfo[i])}

\* C10: the filtered output is the subsequence, in source order, of the
\* records whose status passes the status filter and of which the id or the
\* price as a decimal string, the post title or the post category contains the
\* search term (case-sensitive); with the empty term every record passes it.
C10_FilterIsSubsequence ==
  /\ Len(filteredTrades) = Cardinality(C10_Kept)
  /\ \A k \in 1..Len(filteredTrades) :
       \E i \in C10_Kept :
          /\ Cardinality({j \in C10_Kept : j < i}) = k - 1
          /\ filteredTrades[k] = tradesWithPostInfo[i]
  /\ \A i \in 1..Len(tradesWithPostInfo) :
       /\ C10_IsDecimalOf(toString(tradesWithPostInfo[i].id),
                          tradesWithPostInfo[i].id)
       /\ C10_IsDecimalOf(toString(tradesWithPostInfo[i].price),
                          tradesWithPostInfo[i].price)
  /\ searchTerm = <<>> =>
       \A i \in 1..Len(tradesWithPostInfo) :
          (i \in C10_Kept) <=>
            (statusFilter = "ALL" \/ statusFilter = tradesWithPostInfo[i].status)

\* Status filter ACCEPT and an empty term over the statuses REQUEST, ACCEPT,
\* ACCEPT, COMPLETED: the two ACCEPT records, in order.
C10_Witness ==
  /\ Len(tradesWithPostInfo) = 4
  /\ statusFilter = "ACCEPT"
  /\ searchTerm = <<>>
  /\ IdsOf(filteredTrades) = <<2, 3>>

-----------------------------------------------------------------------------
(* Sort                                                                    *)

\* a precedes b as JS strings: at the first position where they differ a has
\* the smaller code unit, or a ends there and b goes on
C11_TextBefore(a, b) ==
  \E k \in 1..(Len(b)) :
     /\ k <= Len(a) + 1
     /\ \A m \in 1..(k - 1) : a[m] = b[m]
     /\ (k = Len(a) + 1 \/ CharCode(a[k]) < CharCode(b[k]))

\* The key of a record under the selected sort column precedes that of another
C11_KeyBefore(a, b) ==
  CASE sortBy \in {"id", "price"} -> a[sortBy] < b[sortBy]
    [] sortBy = "createdAt" ->
         \/ a.createdAt[1] < b.createdAt[1]
         \/ (a.createdAt[1] = b.createdAt[1] /\ a.createdAt[2] < b.createdAt[2])
    [] sortBy \in {"postTitle", "postCategory"} ->
         C11_TextBefore(a[sortBy], b[sortBy])

\* The keys of the filtered records are pairwise distinct
C11_DistinctKeys ==
  \A i, j \in 1..Len(filteredTrades) :
     i # j => \/ C11_KeyBefore(filteredTrades[i], filteredTrades[j])
              \/ C11_KeyBefore(filteredTrades[j], filteredTrades[i])

\* C11: the displayed sequence is a permutation of the filtered sequence, and
\* when the keys of the selected sort column are pairwise distinct it is
\* strictly increasing in that key for asc and strictly decreasing for desc;
\* prices 300, 100, 200 are displayed as 100, 200, 300 ascending and as
\* 300, 200, 100 descending.
C11_SortedPermutation ==
  /\ Len(sortedTrades) = Len(filteredTrades)
  /\ \A t \in {filteredTrades[i] : i \in 1..Len(filteredTrades)} :
       Cardinality({i \in 1..Len(sortedTrades) : sortedTrades[i] = t})
         = Cardinality({i \in 1..Len(filteredTrades) : filteredTrades[i] = t})
  /\ C11_DistinctKeys =>
       \A i \in 1..(Len(sortedTrades) - 1) :
          IF sortOrder = "asc"
          THEN C11_KeyBefore(sortedTrades[i], sortedTrades[i + 1])
          ELSE C11_KeyBefore(sortedTrades[i + 1], sortedTrades[i])
  /\ ([i \in 1..Len(filteredTrades) |-> filteredTrades[i].price]
         = <<300, 100, 200>> /\ sortBy = "price") =>
       [i \in 1..Len(sortedTrades) |-> sortedTrades[i].price]
         = IF sortOrder = "asc" THEN <<100, 200, 300>> ELSE <<300, 200, 100>>

\* Prices 300, 100, 200 sorted by price, descending.
C11_Witness ==
  /\ [i \in 1..Len(filteredTrades) |-> filteredTrades[i].price]
       = <<300, 100, 200>>
  /\ sortBy = "price"
  /\ sortOrder = "desc"
  /\ [i \in 1..Len(sortedTrades) |-> sortedTrades[i].price] = <<300, 200, 100>>

-----------------------------------------------------------------------------
(* View state: frame                                                       *)

\* C12: a step that changes the view state (search term, status filter, sort
\* key, sort direction) starts no list fetch, no enrichment and no detail
\* fetch, and leaves the fetched list, tradesWithPostInfo and the modal
\* selection as they were; a derivation from an unchanged enriched sequence
\* and view state passes exactly the records the previous one passed.
C12_PureRederivation ==
  /\ [][viewVars' # viewVars =>
          /\ trades' = trades
          /\ tradesWithPostInfo' = tradesWithPostInfo
          /\ selVars' = selVars
          /\ listIsLoading' = listIsLoading
          /\ fanouts' = fanouts
          /\ detailReqs' = detailReqs]_vars
  /\ [][(tradesWithPostInfo' = tradesWithPostInfo /\ viewVars' = viewVars) =>
          filteredTrades' = filteredTrades]_vars

\* The status filter was changed over an enriched list of two and narrowed
\* the table to one row, with no request in flight.
C12_Witness ==
  /\ Len(tradesWithPostInfo) = 2
  /\ statusFilter = "ACCEPT"
  /\ Len(filteredTrades) = 1
  /\ fanouts = <<>>
  /\ ~listIsLoading

-----------------------------------------------------------------------------
(* Label functions                                                         *)

\* C13: the category-label mapping is idempotent: applied to a label it has
\* produced, for a wire code, a localized label, the empty text or any other
\* text, it gives that label again; each of the six localized labels maps to
\* itself.
C13_CategoryIdempotent ==
  categoryLabel # NotComputed =>
    /\ getCategoryLabel(categoryLabel) = categoryLabel
    /\ categoryArg \in {LabelProduct, LabelMethod, LabelUsage, LabelDesign,
                        LabelTrademark, LabelCopyright} =>
         categoryLabel = categoryArg

\* The label of a wire code was fed back and gave itself.
C13_Witness ==
  /\ categoryArg = LabelProduct
  /\ categoryLabel = LabelProduct

\* What the specification expects of the category mapping
C14_Expected(c) ==
  CASE c = CodeProduct -> LabelProduct
    [] c = CodeMethod -> LabelMethod
    [] c = CodeUsage -> LabelUsage
    [] c = CodeDesign -> LabelDesign
    [] c = CodeTrademark -> LabelTrademark
    [] c = CodeCopyright -> LabelCopyright
    [] c \in {LabelProduct, LabelMethod, LabelUsage, LabelDesign,
              LabelTrademark, LabelCopyright} -> c
    [] OTHER -> LabelOther

\* C14: the category-label mapping sends the six wire codes to their six
\* labels and every other value that is not one of those labels, an
\* unrecognized code or the empty text, to the label "other".
C14_CategoryMapping ==
  categoryLabel # NotComputed => categoryLabel = C14_Expected(categoryArg)

\* C15: in the records a completed fan-out sets, a trade whose metadata fetch
\* succeeded with an empty or missing post category has the label "other",
\* and the fallback label "no category" is on records of failed fetches only.
C15_EmptyCategoryIsOther ==
  [][Len(fanouts') < Len(fanouts) =>
       \E f \in 1..Len(fanouts) :
          /\ fanouts' = RemoveAt(fanouts, f)
          /\ \A i \in 1..Len(fanouts[f].slots) :
               LET slot == fanouts[f].slots[i]
                   record == tradesWithPostInfo'[i]
               IN slot.state = "settled" =>
                    /\ (slot.ok /\ slot.data.postCategory \in {<<>>, Undefined})
                         => record.postCategory = LabelOther
                    /\ record.postCategory = NoCategory => ~slot.ok
    ]_vars

\* C16: the wire values REQUEST, ACCEPT, CANCELED and COMPLETED are displayed
\* as four distinct fixed labels and every other status text is displayed
\* unchanged; the table's and the modal's label functions give the same label;
\* the status filter keeps a trade exactly when the filter is ALL or equals
\* the trade's raw status, never its label.
C16_Expected(s) ==
  CASE s = "REQUEST"   -> StatusLabelRequest
    [] s = "ACCEPT"    -> StatusLabelAccept
    [] s = "CANCELED"  -> StatusLabelCanceled
    [] s = "COMPLETED" -> StatusLabelCompleted
    [] OTHER           -> s
C16_StatusDisplay ==
  /\ Cardinality({StatusLabelRequest, StatusLabelAccept,
                  StatusLabelCanceled, StatusLabelCompleted}) = 4
  /\ statusLabel # NotComputedLabel =>
       /\ statusLabel = C16_Expected(statusArg)
       /\ modalStatusLabel = statusLabel
  /\ statusMatches # NotComputedLabel =>
       (statusMatches = "yes" <=> (filterArg = "ALL" \/ statusArg = filterArg))
C16_Witness ==
  /\ statusArg = "HOLD"
  /\ statusLabel = "HOLD"
  /\ modalStatusLabel = "HOLD"
  /\ filterArg = "REQUEST"
  /\ statusMatches = "no"

\* C18: after a login attempt that failed with a response carrying no message,
\* the one error text set is the credential text for status 401 and 400, for
\* status 403 the withdrawn-account text with resultCode 403-1, the
\* suspended-account text with resultCode 403-2 and the no-permission text
\* otherwise, and the server-error text for status 500.
C18_LoginFailed ==
  /\ authEvent.site = "login"
  /\ authEvent.kind = "settle"
  /\ ~authEvent.resp.ok
C18_StatusFallback ==
  (/\ C18_LoginFailed
   /\ authEvent.resp.response
   /\ ~Truthy(authEvent.resp.dataMessage)) =>
     LET err == authEvent.resp
     IN /\ err.status \in {400, 401} => loginError = LoginCredentialError
        /\ (err.status = 403 /\ err.resultCode = ResultCodeWithdrawn)
             => loginError = LoginWithdrawnError
        /\ (err.status = 403 /\ err.resultCode = ResultCodeSuspended)
             => loginError = LoginSuspendedError
        /\ (err.status = 403 /\ err.resultCode
               \notin {ResultCodeWithdrawn, ResultCodeSuspended})
             => loginError = LoginForbiddenError
        /\ err.status = 500 => loginError = LoginServerError
        /\ Cardinality({LoginCredentialError, LoginWithdrawnError,
                        LoginSuspendedError, LoginForbiddenError,
                        LoginServerError}) = 5
C18_Witness ==
  /\ C18_LoginFailed
  /\ authEvent.resp.response
  /\ authEvent.resp.status = 403
  /\ authEvent.resp.resultCode = ResultCodeSuspended
  /\ ~Truthy(authEvent.resp.dataMessage)
  /\ loginError = LoginSuspendedError
  /\ ~loginIsLoading

\* C19: after a request of the authentication flow (login, signup, member
\* verification, password update) failed without a response being received,
\* the error shown by the page is a connectivity text, and is none of the
\* credential, not-found and validation texts.
C19_ConnectivityTexts == {LoginNetworkError, RegNetworkError}
C19_NoResponse ==
  /\ authEvent.kind = "settle"
  /\ ~authEvent.resp.ok
  /\ ~authEvent.resp.response
  /\ authEvent.resp.request
C19_NoResponseIsConnectivity ==
  C19_NoResponse =>
    /\ authEvent.site = "login" => loginError \in C19_ConnectivityTexts
    /\ authEvent.site = "signup" => regError \in C19_ConnectivityTexts
    /\ (authEvent.site = "verify" /\ authEvent.won)
         => passwordResetError \in C19_ConnectivityTexts
    /\ authEvent.site = "update"
         => passwordResetError \in C19_ConnectivityTexts

\* C17: after a failed request whose response carries a message, at login,
\* member verification, password update, signup and the modal's detail fetch,
\* the error shown is that message unchanged, whatever the status and the
\* resultCode of the response.
C17_AuthFailureWithMessage ==
  /\ authEvent.kind = "settle"
  /\ ~authEvent.resp.ok
  /\ authEvent.resp.response
  /\ Truthy(authEvent.resp.dataMessage)
C17_BackendMessageVerbatim ==
  /\ C17_AuthFailureWithMessage =>
       /\ authEvent.site = "login" => loginError = authEvent.resp.dataMessage
       /\ (authEvent.site = "verify" /\ authEvent.won)
            => passwordResetError = authEvent.resp.dataMessage
       /\ authEvent.site = "update"
            => passwordResetError = authEvent.resp.dataMessage
       /\ authEvent.site = "signup" => regError = authEvent.resp.dataMessage
  /\ (/\ lastEvent.kind = "settle"
      /\ lastEvent.live
      /\ ~lastEvent.resp.ok
      /\ Truthy(lastEvent.resp.message)) => error = lastEvent.resp.message
C17_Witness ==
  /\ C17_AuthFailureWithMessage
  /\ authEvent.site = "login"
  /\ authEvent.resp.status = 403
  /\ authEvent.resp.resultCode = ResultCodeWithdrawn
  /\ loginError = authEvent.resp.dataMessage
  /\ loginError # LoginWithdrawnError

\* C20: no failure leaves a handler, and after every failed request the
\* initiating component holds the failure in its own state: a non-empty error
\* text after a failed login, member verification, password update, signup,
\* trade-list fetch or modal detail fetch (an answer that cannot be read
\* included), and the placeholder labels on the record of every trade whose
\* detail fetch of the enrichment failed.
C20_ErrorShown ==
  /\ escaped = {}
  /\ (authEvent.kind = "settle" /\ authEvent.site = "login"
        /\ (~authEvent.resp.ok
              \/ authEvent.resp.body \in {"null", "noData"}
              \/ authEvent.resp.memberInfo = "noId"))
       => Truthy(loginError) /\ ~loginIsLoading /\ route = "/login"
  /\ (authEvent.site = "verify" /\ authEvent.kind \in {"settle", "timer"}
        /\ authEvent.won /\ ~authEvent.resp.ok)
       => Truthy(passwordResetError) /\ ~passwordResetLoading
  /\ (authEvent.kind = "settle" /\ authEvent.site = "update"
        /\ ~authEvent.resp.ok)
       => Truthy(passwordResetError) /\ ~passwordResetLoading
  /\ (authEvent.kind = "settle" /\ authEvent.site = "signup"
        /\ ~authEvent.resp.ok)
       => Truthy(regError) /\ ~regIsLoading /\ route = "/register"
  /\ (lastEvent.kind = "settle" /\ lastEvent.live /\ ~lastEvent.resp.ok)
       => Truthy(error) /\ ~isLoading
  /\ listError # Null => Truthy(listError) /\ ~listIsLoading
C20_FailuresCaught ==
  /\ []C20_ErrorShown
  /\ [][Len(fanouts') < Len(fanouts) =>
          \E f \in 1..Len(fanouts) :
             /\ fanouts' = RemoveAt(fanouts, f)
             /\ Len(tradesWithPostInfo') = Len(fanouts[f].slots)
             /\ \A i \in 1..Len(fanouts[f].slots) :
                  (fanouts[f].slots[i].state = "settled"
                     /\ ~fanouts[f].slots[i].ok) =>
                    /\ tradesWithPostInfo'[i].postTitle = NoTitle
                    /\ tradesWithPostInfo'[i].postCategory = NoCategory
       ]_vars
C20_Witness ==
  /\ authEvent.kind = "settle"
  /\ authEvent.site = "login"
  /\ authEvent.resp.ok
  /\ authEvent.resp.body = "null"
  /\ loginError = LoginGenericError
  /\ ~loginIsLoading
  /\ escaped = {}

\* C21: a request is issued only by a user action (a submit, a row click, a
\* retry click) or, for the enrichment, by the arrival of a trade list; a step
\* in which a request settles or a timer fires issues none, so a failed
\* request is not repeated by itself.  In a fan-out every trade has one fetch,
\* and a fetch that settled, failed or not, is never pending again.
C21_AuthInFlight ==
  (IF loginPending THEN 1 ELSE 0) + (IF regPending THEN 1 ELSE 0)
  + Len(verifyCalls) + Len(updateReqs)
C21_NoAutomaticRetry ==
  [][/\ C21_AuthInFlight' > C21_AuthInFlight
          => (authEvent'.kind = "submit" /\ C21_AuthInFlight' = C21_AuthInFlight + 1)
     /\ authEvent'.kind \in {"settle", "timer"}
          => C21_AuthInFlight' <= C21_AuthInFlight
     /\ Len(detailReqs') > Len(detailReqs)
          => (lastEvent'.kind \in {"row", "retry"}
                /\ Len(detailReqs') = Len(detailReqs) + 1)
     /\ (Len(detailReqs') >= Len(detailReqs) /\ detailReqs' # detailReqs)
          => lastEvent'.kind # "settle"
     /\ listIsLoading' => listIsLoading
     /\ Len(fanouts') > Len(fanouts) => (listIsLoading /\ ~listIsLoading')
     /\ \A f \in 1..Len(fanouts') :
          Len(fanouts'[f].slots) = Len(fanouts'[f].trades)
     /\ Len(fanouts') = Len(fanouts) =>
          \A f \in 1..Len(fanouts) : \A i \in 1..Len(fanouts[f].slots) :
             fanouts[f].slots[i].state = "settled"
               => fanouts'[f].slots[i] = fanouts[f].slots[i]
    ]_vars
\* The modal's detail fetch failed: the failure is shown and no detail fetch
\* is in flight.
C21_Witness ==
  /\ lastEvent.kind = "settle" /\ lastEvent.live /\ ~lastEvent.resp.ok
  /\ Truthy(error)
  /\ detailReqs = <<>>

\* C22: when the timer of a member verification fires before the verify call
\* settles, the wizard is and stays at step 1, the delayed-response text is the
\* error and the loading flag is cleared; a verify call that settles after its
\* timer fired, and a timer that fires after its verify call settled, change
\* none of step, error and loading flag.
C22_RaceDecidesOnce ==
  [][/\ (authEvent'.kind = "timer" /\ verifyCalls' # verifyCalls
           /\ authEvent'.won)
          => /\ passwordResetStep = 1
             /\ passwordResetStep' = 1
             /\ passwordResetError' = ResetDelayedError
             /\ ~passwordResetLoading'
     /\ (authEvent'.site = "verify" /\ authEvent'.kind \in {"settle", "timer"}
           /\ verifyCalls' # verifyCalls /\ ~authEvent'.won)
          => UNCHANGED <<passwordResetStep, passwordResetError,
                         passwordResetLoading>>
    ]_vars
\* A verify call was fulfilled after its timer had fired: the wizard is still
\* at step 1 with the delayed-response text.
C22_Witness ==
  /\ authEvent.site = "verify"
  /\ authEvent.kind = "settle"
  /\ ~authEvent.won
  /\ authEvent.resp.ok
  /\ passwordResetStep = 1
  /\ passwordResetError = ResetDelayedError
  /\ ~passwordResetLoading

\* C23: every request handlePasswordReset sends to the update-password
\* endpoint carries the name and email of the last member verification that
\* succeeded.
C23_UpdateSendsVerifiedIdentity ==
  [][Len(updateReqs') > Len(updateReqs) =>
       LET sent == updateReqs'[Len(updateReqs')].data
       IN /\ sent.name = verifiedIdentity.name
          /\ sent.email = verifiedIdentity.email
    ]_vars

\* C24: the wizard's step becomes 2 only in the step in which a verifyMember
\* call is fulfilled before its timer, and every such call carries a non-blank
\* trimmed name and email; pressing next with a name or email that is blank
\* after trimming issues no request, sets the blank-input error and leaves the
\* step at 1; a verification that fails or times out leaves the step as it is.
C24_StepTwoOnlyAfterVerification ==
  [][/\ (passwordResetStep = 1 /\ passwordResetStep' = 2)
          => /\ authEvent'.site = "verify"
             /\ authEvent'.kind = "settle"
             /\ authEvent'.won
             /\ authEvent'.resp.ok
             /\ verifyCalls' # verifyCalls
     /\ \A k \in 1..Len(verifyCalls') :
          /\ verifyCalls'[k].name = trim(verifyCalls'[k].name)
          /\ verifyCalls'[k].email = trim(verifyCalls'[k].email)
          /\ verifyCalls'[k].name # <<>>
          /\ verifyCalls'[k].email # <<>>
     /\ (authEvent'.site = "verify" /\ authEvent'.kind = "blank")
          => /\ verifyCalls' = verifyCalls
             /\ passwordResetError' = ResetBlankError
             /\ passwordResetStep' = 1
             /\ (trim(passwordResetData.name) = <<>>
                   \/ trim(passwordResetData.email) = <<>>)
     /\ (authEvent'.site = "verify" /\ authEvent'.kind \in {"settle", "timer"}
           /\ verifyCalls' # verifyCalls /\ authEvent'.won
           /\ ~authEvent'.resp.ok)
          => passwordResetStep' = passwordResetStep
    ]_vars
\* The wizard is at step 2 right after a verification that won its race.
C24_Witness ==
  /\ authEvent.site = "verify"
  /\ authEvent.kind = "settle"
  /\ authEvent.won
  /\ authEvent.resp.ok
  /\ passwordResetStep = 2
  /\ verifiedIdentity.name = <<"k">>

\* C25: whenever the password-reset view is hidden, the wizard is in its
\* initial state: step 1, the four fields empty, no error and no success text.
C25_HiddenWizardIsInitial ==
  ~showPasswordReset =>
    /\ passwordResetStep = 1
    /\ passwordResetData = EmptyResetData
    /\ passwordResetError = <<>>
    /\ passwordResetSuccess = <<>>

\* C26: submitting the new-password form with two different passwords issues
\* no update request, sets the mismatch text, leaves the success text empty and
\* the fields and the step unchanged, and ends with the loading flag down; the
\* success text is set and the four fields are cleared only in the step in
\* which an update request is fulfilled; error and success text are never both
\* non-empty.
C26_MismatchAndSuccess ==
  /\ [][/\ (authEvent'.site = "update" /\ authEvent'.kind = "mismatch")
             => /\ passwordResetData.newPassword
                     # passwordResetData.confirmPassword
                /\ updateReqs' = updateReqs
                /\ passwordResetError' = ResetMismatchError
                /\ passwordResetSuccess' = <<>>
                /\ passwordResetData' = passwordResetData
                /\ passwordResetStep' = passwordResetStep
                /\ ~passwordResetLoading'
        /\ (authEvent'.site = "update" /\ authEvent'.kind = "submit"
              /\ updateReqs' # updateReqs)
             => passwordResetData.newPassword
                  = passwordResetData.confirmPassword
        /\ (passwordResetSuccess' # <<>>
              /\ passwordResetSuccess' # passwordResetSuccess)
             => /\ authEvent'.site = "update"
                /\ authEvent'.kind = "settle"
                /\ authEvent'.resp.ok
                /\ Len(updateReqs') < Len(updateReqs)
                /\ passwordResetSuccess' = ResetSuccessText
                /\ passwordResetData' = EmptyResetData
       ]_vars
  /\ [](passwordResetError = <<>> \/ passwordResetSuccess = <<>>)

\* C27: a registration submit issues the signup request exactly when password
\* and confirmation are equal and the terms are agreed; on a mismatch, which is
\* checked first, and on missing agreement it sets the corresponding error,
\* issues no request, does not navigate and ends with isLoading false; the
\* page navigates to /register/success only in the step in which a signup
\* request is fulfilled.
C27_RegisterSubmitChecks ==
  [][/\ (authEvent'.site = "signup"
           /\ authEvent'.kind \in {"mismatch", "agree", "submit"}
           /\ (authEvent' # authEvent \/ regError' # regError))
          => /\ ~regPending
             /\ IF regFormData.password # regFormData.confirmPassword
                THEN /\ authEvent'.kind = "mismatch"
                     /\ regError' = RegMismatchError
                     /\ ~regPending' /\ ~regIsLoading'
                     /\ route' = route
                ELSE IF ~regFormData.agree
                THEN /\ authEvent'.kind = "agree"
                     /\ regError' = RegAgreeError
                     /\ ~regPending' /\ ~regIsLoading'
                     /\ route' = route
                ELSE /\ authEvent'.kind = "submit"
                     /\ regPending' /\ regIsLoading'
                     /\ regError' = <<>>
                     /\ route' = route
     /\ (regPending' /\ ~regPending)
          => /\ authEvent'.kind = "submit"
             /\ regFormData.password = regFormData.confirmPassword
             /\ regFormData.agree
     /\ (route' = "/register/success" /\ route # "/register/success")
          => /\ regPending /\ ~regPending'
             /\ authEvent'.site = "signup"
             /\ authEvent'.kind = "settle"
             /\ authEvent'.resp.ok
    ]_vars
\* A submit with different passwords and the terms not agreed: the mismatch
\* error, not the agreement error.
C27_Witness ==
  /\ authEvent.site = "signup"
  /\ authEvent.kind = "mismatch"
  /\ ~regFormData.agree
  /\ regError = RegMismatchError
  /\ ~regIsLoading
  /\ route = "/register"

\* C28: after a login submit the page navigates only for an answer with a data
\* envelope, to /admin/members exactly when memberInfo.role is ADMIN and to /
\* otherwise, and only after login() stored the session with that role; for an
\* answer without a data envelope no session is stored, the route stays and an
\* error is set.
C28_LoginNavigation ==
  [][/\ (route = "/login" /\ route' # "/login")
          => /\ authEvent'.site = "login"
             /\ authEvent'.kind = "settle"
             /\ authEvent'.resp.ok
             /\ authEvent'.resp.body = "data"
             /\ route' = IF authEvent'.resp.role = "ADMIN"
                         THEN "/admin/members" ELSE "/"
             /\ session' # NullObj
             /\ session'.role = IF authEvent'.resp.role = NoRole
                                THEN "USER" ELSE authEvent'.resp.role
     /\ (authEvent'.site = "login" /\ authEvent'.kind = "settle"
           /\ loginPending /\ authEvent'.resp.ok
           /\ authEvent'.resp.body # "data")
          => /\ session' = NullObj
             /\ route' = "/login"
             /\ Truthy(loginError')
    ]_vars

\* C29: when every request settles and every timer fires, each loading flag
\* that is up (login, password reset, registration, modal) is eventually down
\* or its page has been left;
\* and each of login, member verification, password update and signup has at
\* most one request in flight.
C29_RequestsInFlight ==
  [login |-> IF loginPending THEN 1 ELSE 0,
   verify |-> Cardinality({k \in 1..Len(verifyCalls) :
                             verifyCalls[k].verify = "pending"}),
   update |-> Len(updateReqs),
   signup |-> IF regPending THEN 1 ELSE 0]
C29_LoadingEnds ==
  /\ loginIsLoading ~> ~loginIsLoading
  /\ passwordResetLoading ~> (~passwordResetLoading \/ route # "/login")
  /\ regIsLoading ~> ~regIsLoading
  /\ isLoading ~> ~isLoading
C29_LoadingEndsSingleFlight ==
  /\ C29_LoadingEnds
  /\ [](\A op \in DOMAIN C29_RequestsInFlight : C29_RequestsInFlight[op] <= 1)

\* C30: the displayed sequence is never longer than the fetched trade list, and
\* every displayed record's id is the id of a trade of the fetched list.
C30_IdSet(list) == {list[i].id : i \in 1..Len(list)}
C30_DisplayedWithinFetched ==
  /\ Len(sortedTrades) <= Len(trades)
  /\ C30_IdSet(sortedTrades) \subseteq C30_IdSet(trades)

=============================================================================
